---- MODULE Spec2Model ----
(***************************************************************************)
(* Model of the Music Store Assistant: the FastAPI service (src/api.py)   *)
(* around the LangGraph state machine (src/graph.py) with its              *)
(* human-in-the-loop approval gate before the refund tool.                 *)
(*                                                                         *)
(* A chat or an approve request that invokes the graph is modelled as a    *)
(* sequence of steps: the handler's entry, one step per graph node (the    *)
(* checkpointer stores a snapshot after every node), and the handler's     *)
(* return.  reject, status and the admin listing do not invoke the graph   *)
(* and are single steps.                                                   *)
(*                                                                         *)
(* Spec handles one request at a time.  ConcSpec lets a second request     *)
(* start while one is in flight.  ToolSpec calls the support tools         *)
(* directly, over any arguments, config and Invoice table.                 *)
(***************************************************************************)
EXTENDS Integers, Sequences, FiniteSets, TLC

VARIABLES
    checkpoint,          \* MemorySaver: thread_id -> snapshot {messages, route, next}
    pending_approvals,   \* api.pending_approvals: thread_id -> record or NoRecord
    rejected_responses,  \* api.rejected_responses: thread_id -> text or NoText
    req,                 \* the request being handled, the position of its graph run,
                         \* the snapshot its thread had when graph.invoke began and
                         \* the state the run holds (what it stored last)
    resp,                \* the response of the last request (none while one is handled)
    tool_executions,     \* history: per thread, every tool body that was entered, in order
    rejections,          \* history: per thread, whether a reject was accepted and
                         \* the ids of the deferred calls it cancelled
    invocations,         \* number of graph.invoke calls made so far
    submitted,           \* history: per thread, the user texts handed to graph.invoke
    db,                  \* the Invoice table: InvoiceId -> CustomerId of its owner
    tool_run,            \* the last direct invocation of a support tool and its outcome
    graph,               \* the compiled graph: whether it has a checkpointer, and
                         \* the nodes it interrupts before
    model_run,           \* the last call of get_model_for_role: its arguments, the
                         \* environment it ran in and what it returned or raised
    parked               \* requests in flight in other worker threads of the server

vars == <<checkpoint, pending_approvals, rejected_responses, req, resp,
          tool_executions, rejections, invocations, submitted>>

tool_vars == <<db, tool_run, graph, model_run>>

all_vars == <<vars, tool_vars, parked>>

----------------------------------------------------------------------------
(* Bounds of the model *)

MaxInvocations == 2    \* graph.invoke calls (chat turns and resumes)
MaxToolBatches == 2    \* worker replies that request tool calls, over all threads
MaxToolRaises == 1     \* tool executions that raise out of their node
MaxParked == 1         \* requests in flight besides the one taking a step

Threads == {"t1", "t2"}
Customers == {1, 2}

----------------------------------------------------------------------------
(* Tool registry: src/tools/music.py, src/tools/support.py *)

MUSIC_TOOLS ==
    {"get_albums_by_artist", "get_tracks_by_artist", "check_for_songs",
     "get_artists_by_genre", "list_genres"}

SUPPORT_TOOLS == {"get_customer_info", "get_invoice", "process_refund"}

SAFE_SUPPORT_TOOLS == {"get_customer_info", "get_invoice"}

HITL_SUPPORT_TOOLS == {"process_refund"}

HITL_TOOLS == {"process_refund"}

END == "__end__"

NoRecord == [thread_id |-> "", customer_id |-> 0, tool |-> ""]

NoText == ""

RejectionMessage == "We're sorry, but we are unable to provide a refund for this order."

PendingBlockedMessage == "There's a pending refund request that needs approval."

RequiresApprovalMessage == "Refund Request Requires Approval"

WaitingMessage == "Waiting for supervisor approval..."

StaleInterruptMessage == "Your request has been processed."

DefaultResponse == "I'm not sure how to help with that."

NoPendingDetail == "No pending approval for this thread"

----------------------------------------------------------------------------
(* Support tools: src/tools/support.py.  A tool is called with the         *)
(* arguments the model produced and with the RunnableConfig of the         *)
(* invocation; it returns a string or raises.  The outcome records the     *)
(* query the tool sent to the database.                                    *)

\* Python's None: an argument that was not given, a key that is absent
None == 0

\* InvoiceIds of the rows of the Invoice table
Invoices == {1, 2}

\* Invoice tables: every invoice is owned by one customer
Tables == [Invoices -> Customers]

\* invoice_id arguments the model may produce: none, an existing invoice, or
\* an id that no invoice has
InvoiceArgs == {None} \cup Invoices \cup {3}

\* Tool-call arguments as the model produced them.  customer_id is in no
\* tool's signature: a model may still send it.
ToolArgs == [invoice_id : InvoiceArgs, customer_id : {None} \cup Customers]

\* RunnableConfigs: "configurable" with the thread_id, with or without a
\* customer_id
Configs ==
    {[configurable |-> [thread_id |-> "t1"]]} \cup
    {[configurable |-> [thread_id |-> "t1", customer_id |-> c]] : c \in Customers}

NoQuery == [table |-> "", CustomerId |-> None, InvoiceId |-> None]

Raise(error) == [raised |-> TRUE, value |-> error, query |-> NoQuery]

Return(value, query) == [raised |-> FALSE, value |-> value, query |-> query]

CustomerIdNotFound == "customer_id not found in config - authentication required"

_get_customer_id(config) ==
    IF "customer_id" \in DOMAIN config.configurable
    THEN [raised |-> FALSE, value |-> config.configurable.customer_id]
    ELSE [raised |-> TRUE, value |-> None]

\* db.run(SELECT ... FROM Invoice WHERE CustomerId = c [AND InvoiceId = i]):
\* the text of the matching rows, "" when there is none
SelectInvoices(table, customer_id, invoice_id) ==
    LET rows == {i \in DOMAIN table :
                    /\ table[i] = customer_id
                    /\ invoice_id # None => i = invoice_id}
    IN IF rows = {} THEN "" ELSE ToString(rows)

get_customer_info(args, config, table) ==
    LET customer_id == _get_customer_id(config) IN
    IF customer_id.raised THEN Raise(CustomerIdNotFound)
    ELSE Return("Customer " \o ToString(customer_id.value),
                [table |-> "Customer", CustomerId |-> customer_id.value,
                 InvoiceId |-> None])

get_invoice(args, config, table) ==
    LET customer_id == _get_customer_id(config) IN
    IF customer_id.raised THEN Raise(CustomerIdNotFound)
    ELSE LET query == [table |-> "Invoice", CustomerId |-> customer_id.value,
                       InvoiceId |-> args.invoice_id]
             result == SelectInvoices(table, customer_id.value, args.invoice_id)
         IN IF args.invoice_id # None /\ (result = "" \/ result = "[]")
            THEN Return("Invoice " \o ToString(args.invoice_id)
                            \o " not found in your account.", query)
            ELSE Return(result, query)

\* Mutant: a customer_id among the arguments takes precedence over the config
process_refund_ArgsCustomer(args, config, table) ==
    LET customer_id == IF args.customer_id # None
                       THEN [raised |-> FALSE, value |-> args.customer_id]
                       ELSE _get_customer_id(config)
    IN
    IF args.invoice_id = None THEN Raise("invoice_id: field required")
    ELSE IF customer_id.raised THEN Raise(CustomerIdNotFound)
    ELSE LET query == [table |-> "Invoice", CustomerId |-> customer_id.value,
                       InvoiceId |-> args.invoice_id]
             invoice_info == SelectInvoices(table, customer_id.value, args.invoice_id)
         IN IF invoice_info = "" \/ invoice_info = "[]"
            THEN Return("Error: Invoice " \o ToString(args.invoice_id)
                            \o " not found in your account.", query)
            ELSE Return("Refund initiated for Invoice #" \o ToString(args.invoice_id)
                            \o ".", query)

\* Mutant: the invoice is looked up by its id alone
process_refund_AnyOwner(args, config, table) ==
    LET customer_id == _get_customer_id(config) IN
    IF args.invoice_id = None THEN Raise("invoice_id: field required")
    ELSE IF customer_id.raised THEN Raise(CustomerIdNotFound)
    ELSE LET query == [table |-> "Invoice", CustomerId |-> customer_id.value,
                       InvoiceId |-> args.invoice_id]
         IN IF args.invoice_id \notin DOMAIN table
            THEN Return("Error: Invoice " \o ToString(args.invoice_id)
                            \o " not found in your account.", query)
            ELSE Return("Refund initiated for Invoice #" \o ToString(args.invoice_id)
                            \o ".", query)

\* invoice_id is a required int of the tool's schema
process_refund(args, config, table) ==
    LET customer_id == _get_customer_id(config) IN
    IF args.invoice_id = None THEN Raise("invoice_id: field required")
    ELSE IF customer_id.raised THEN Raise(CustomerIdNotFound)
    ELSE LET query == [table |-> "Invoice", CustomerId |-> customer_id.value,
                       InvoiceId |-> args.invoice_id]
             invoice_info == SelectInvoices(table, customer_id.value, args.invoice_id)
         IN IF invoice_info = "" \/ invoice_info = "[]"
            THEN Return("Error: Invoice " \o ToString(args.invoice_id)
                            \o " not found in your account.", query)
            ELSE Return("Refund initiated for Invoice #" \o ToString(args.invoice_id)
                            \o ".", query)

CallTool(tool, args, config, table) ==
    CASE tool = "get_customer_info" -> get_customer_info(args, config, table)
      [] tool = "get_invoice" -> get_invoice(args, config, table)
      [] tool = "process_refund" -> process_refund(args, config, table)

\* ChatRequest.customer_id and the customer_id parameter of the other
\* endpoints: the customer of the demo
DemoCustomerId == 16

\* The default of the dataclass field
DefaultCustomerId == 1

\* CustomerContext(customer_id=...); None stands for a call without the argument
CustomerContext(customer_id) ==
    [customer_id |-> IF customer_id = None THEN DefaultCustomerId ELSE customer_id]

NoRun ==
    [tool |-> "", args |-> [invoice_id |-> None, customer_id |-> None],
     config |-> [configurable |-> [thread_id |-> ""]], content |-> "",
     context_arg |-> None, context |-> [customer_id |-> None], via |-> "",
     out |-> Raise("")]

\* No call of get_model_for_role yet
NoModelRun ==
    [called |-> FALSE, environ |-> [k \in {} |-> <<>>], default |-> <<>>,
     missing |-> {}, raising |-> {},
     out |-> [raised |-> FALSE, cls |-> "", model |-> <<>>, base_url |-> ""]]

----------------------------------------------------------------------------
(* Messages.  text = "" is empty content; a user text or an agent text is  *)
(* named after the position the message takes in its thread.               *)

HumanMessage(txt) ==
    [type |-> "human", name |-> "", tool_calls |-> <<>>, text |-> txt,
     tool_call_id |-> 0, status |-> ""]

AIMessage(nm, calls, txt) ==
    [type |-> "ai", name |-> nm, tool_calls |-> calls, text |-> txt,
     tool_call_id |-> 0, status |-> ""]

ToolMessage(nm, id, st) ==
    [type |-> "tool", name |-> nm, tool_calls |-> <<>>, text |-> "result",
     tool_call_id |-> id, status |-> st]

EmptySnapshot == [messages |-> <<>>, route |-> "", next |-> ""]

IdleReq ==
    [kind |-> "idle", thread_id |-> "", customer_id |-> 0, phase |-> "",
     resuming |-> FALSE, start |-> EmptySnapshot, state |-> EmptySnapshot]

NoResp ==
    [kind |-> "", thread_id |-> "", code |-> 0, response |-> "",
     requires_approval |-> FALSE, pending_tool |-> "", status |-> "",
     pending |-> {}]

Last(s) == s[Len(s)]

----------------------------------------------------------------------------
(* Routing logic of the graph: src/graph.py *)

\* Mutant: the conditional edge ignores the route
route_supervisor_AlwaysSupport(state) == "support_rep"

route_supervisor(state) ==
    IF state.route = "music" THEN "music_expert" ELSE "support_rep"

should_continue_music(state) ==
    LET last_message == Last(state.messages) IN
    IF last_message.type = "ai" /\ last_message.tool_calls # <<>>
    THEN "music_tools"
    ELSE END

\* Mutant: only the first requested call is checked against HITL_TOOLS
should_continue_support_FirstCall(state) ==
    LET last_message == Last(state.messages) IN
    IF last_message.type = "ai" /\ last_message.tool_calls # <<>>
    THEN IF last_message.tool_calls[1].name \in HITL_TOOLS
         THEN "support_hitl"
         ELSE "support_tools"
    ELSE END

\* Mutant: calls that need no approval are not sent to the tool node
should_continue_support_EndsEarly(state) ==
    LET last_message == Last(state.messages) IN
    IF /\ last_message.type = "ai"
       /\ \E i \in 1..Len(last_message.tool_calls) :
              last_message.tool_calls[i].name \in HITL_TOOLS
    THEN "support_hitl"
    ELSE END

should_continue_support(state) ==
    LET last_message == Last(state.messages) IN
    IF last_message.type = "ai" /\ last_message.tool_calls # <<>>
    THEN IF \E i \in 1..Len(last_message.tool_calls) :
                last_message.tool_calls[i].name \in HITL_TOOLS
         THEN "support_hitl"
         ELSE "support_tools"
    ELSE END

\* add_conditional_edges("support_rep", should_continue_support, {...})
SupportEdges(label) ==
    CASE label = "support_tools" -> "support_tools"
      [] label = "support_hitl" -> "refund_tools"
      [] OTHER -> END

\* add_conditional_edges("music_expert", should_continue_music, {...})
MusicEdges(label) ==
    CASE label = "music_tools" -> "music_tools"
      [] OTHER -> END

\* Mutant: the tool nodes lead back to the supervisor
ToolEdges_ToSupervisor(node) == "supervisor"

\* add_edge(tools node, worker)
ToolEdges(node) ==
    CASE node = "music_tools" -> "music_expert"
      [] node = "support_tools" -> "support_rep"
      [] node = "refund_tools" -> "support_rep"

\* ToolNode(...) of each tool node
NodeTools(node) ==
    CASE node = "music_tools" -> MUSIC_TOOLS
      [] node = "support_tools" -> SAFE_SUPPORT_TOOLS
      [] node = "refund_tools" -> HITL_SUPPORT_TOOLS

\* Mutant: the graph compiled without interrupt_before
InterruptBefore_None == {}

\* Mutant: the safe support tools are gated as well
InterruptBefore_SupportTools == {"refund_tools", "support_tools"}

\* compile(checkpointer=..., interrupt_before=["refund_tools"])
InterruptBefore == {"refund_tools"}

\* Mutant: the gate is configured whether or not there is a checkpointer
create_graph_GateAlways(checkpointer) ==
    [checkpointer |-> checkpointer, interrupt_before |-> InterruptBefore]

\* create_graph(checkpointer): the gate is compiled in only with a checkpointer
create_graph(checkpointer) ==
    [checkpointer |-> checkpointer,
     interrupt_before |-> IF checkpointer THEN InterruptBefore ELSE {}]

\* The snapshot's next_step: empty when the run reached END
NextOf(target) == IF target = END THEN "" ELSE target

----------------------------------------------------------------------------
(* Helpers of the API: src/api.py *)

RECURSIVE ExtractFrom(_, _)
ExtractFrom(messages, i) ==
    IF i = 0 THEN DefaultResponse
    ELSE LET msg == messages[i] IN
         IF msg.type # "ai" THEN ExtractFrom(messages, i - 1)
         ELSE IF msg.name = "supervisor" THEN ExtractFrom(messages, i - 1)
         ELSE IF msg.text # "" THEN msg.text
         ELSE ExtractFrom(messages, i - 1)

\* Mutant: the supervisor's routing message is not skipped
extract_assistant_response_AnyAgent(result) ==
    LET with_text == { i \in 1..Len(result.messages) :
                         result.messages[i].type = "ai" /\ result.messages[i].text # "" }
    IN IF with_text = {} THEN DefaultResponse
       ELSE result.messages[CHOOSE i \in with_text : \A j \in with_text : j <= i].text

extract_assistant_response(result) ==
    ExtractFrom(result.messages, Len(result.messages))

\* Mutant: the tracked approvals are never found
check_pending_approval_Never(thread_id) == FALSE

check_pending_approval(thread_id) == pending_approvals[thread_id] # NoRecord

\* Mutant: every turn is reported as interrupted
check_graph_interrupted_Always(thread_id) == TRUE

check_graph_interrupted(thread_id) == checkpoint[thread_id].next # ""

----------------------------------------------------------------------------
(* What the reasoning capability may return to a worker: a batch of tool   *)
(* names to call (none: a final reply).  The workers are bound to their    *)
(* own tools, but the names in a returned call are not validated before    *)
(* the routing functions read them.                                        *)

MusicBatches ==
    { <<>>, <<"get_albums_by_artist">>, <<"get_albums_by_artist", "process_refund">> }

SupportBatches ==
    { <<>>, <<"get_invoice">>, <<"process_refund">>, <<"get_invoice", "process_refund">> }

\* The calls of a reply, each with an id unique in its thread (the position of
\* the message and of the call in it)
ToolCalls(batch, messages) ==
    [i \in 1..Len(batch) |-> [name |-> batch[i], id |-> 10 * (Len(messages) + 1) + i]]

PosText(prefix, messages) == prefix \o ToString(Len(messages) + 1)

----------------------------------------------------------------------------
(* The state after construction *)

ServiceInit ==
    /\ checkpoint = [t \in Threads |-> EmptySnapshot]
    /\ pending_approvals = [t \in Threads |-> NoRecord]
    /\ rejected_responses = [t \in Threads |-> NoText]
    /\ req = IdleReq
    /\ resp = NoResp
    /\ tool_executions = [t \in Threads |-> <<>>]
    /\ rejections = [t \in Threads |-> [rejected |-> FALSE, calls |-> {}]]
    /\ invocations = 0
    /\ submitted = [t \in Threads |-> <<>>]
    /\ parked = {}

\* api.py: graph = create_graph(checkpointer=MemorySaver())
Init ==
    /\ ServiceInit
    /\ db = [i \in Invoices |-> i]
    /\ tool_run = NoRun
    /\ model_run = NoModelRun
    /\ graph = create_graph(TRUE)

Running == req.kind \in {"chat", "approve", "invoke", "resume"} /\ req.phase = "run"

CurrentNode == req.state.next

\* Mutant: only the three latest messages are kept when a snapshot is stored
Save_Trimmed(thread_id, messages, route, target) ==
    checkpoint' = [checkpoint EXCEPT ![thread_id] =
                      [messages |-> IF Len(messages) > 3
                                    THEN SubSeq(messages, Len(messages) - 2, Len(messages))
                                    ELSE messages,
                       route |-> route, next |-> NextOf(target)]]

\* The snapshot stored after a node: its writes applied, next the node's target
Save(thread_id, messages, route, target) ==
    checkpoint' = [checkpoint EXCEPT ![thread_id] =
                      [messages |-> messages, route |-> route, next |-> NextOf(target)]]

\* The run after a node: it holds the state it has just stored
AfterNode(target) ==
    req' = [req EXCEPT !.resuming = FALSE,
                       !.state = checkpoint'[req.thread_id],
                       !.phase = IF target = END THEN "done" ELSE "run"]

----------------------------------------------------------------------------
\* str(uuid.uuid4()): an id that no thread of the service has and no request
\* has named
NewThreadId(thread_id) ==
    /\ checkpoint[thread_id] = EmptySnapshot
    /\ pending_approvals[thread_id] = NoRecord
    /\ rejected_responses[thread_id] = NoText
    /\ submitted[thread_id] = <<>>
    /\ resp.thread_id # thread_id
    /\ \A r \in parked \cup {req} : r.thread_id # thread_id

\* Mutant: the messages channel has no reducer, the input replaces the history
chat_NoReducer(request_thread_id, customer_id) ==
    \E thread_id \in Threads :
        /\ IF request_thread_id # ""
           THEN thread_id = request_thread_id
           ELSE NewThreadId(thread_id)
        /\ req.kind = "idle"
        /\ IF check_pending_approval(thread_id)
           THEN /\ resp' = [NoResp EXCEPT !.kind = "chat", !.thread_id = thread_id,
                               !.code = 200, !.response = PendingBlockedMessage,
                               !.requires_approval = TRUE,
                               !.pending_tool = "process_refund"]
                /\ UNCHANGED <<checkpoint, pending_approvals, rejected_responses, req,
                               tool_executions, rejections, invocations, submitted>>
           ELSE /\ invocations < MaxInvocations
                /\ LET state == checkpoint[thread_id] IN
                   Save(thread_id,
                        <<HumanMessage(PosText("user", state.messages))>>,
                        state.route, "supervisor")
                /\ req' = [IdleReq EXCEPT !.kind = "chat", !.thread_id = thread_id,
                              !.customer_id = customer_id, !.phase = "run",
                              !.start = checkpoint[thread_id],
                              !.state = checkpoint'[thread_id]]
                /\ invocations' = invocations + 1
                /\ submitted' = [submitted EXCEPT ![thread_id] =
                                     Append(@, PosText("user", checkpoint[thread_id].messages))]
                /\ resp' = NoResp
                /\ UNCHANGED <<pending_approvals, rejected_responses, tool_executions,
                               rejections>>
        /\ UNCHANGED <<tool_vars, parked>>

(* POST /chat: entry.  The thread is the one the request names, or a new   *)
(* one when it names none (an empty thread_id counts as none).  Blocked    *)
(* while a pending approval is tracked; otherwise graph.invoke with the    *)
(* new user message, which discards any unfinished task of the snapshot    *)
(* and enters at the supervisor.                                           *)
chat(request_thread_id, customer_id) ==
    \E thread_id \in Threads :
        /\ IF request_thread_id # ""
           THEN thread_id = request_thread_id
           ELSE NewThreadId(thread_id)
        /\ req.kind = "idle"
        /\ IF check_pending_approval(thread_id)
           THEN /\ resp' = [NoResp EXCEPT !.kind = "chat", !.thread_id = thread_id,
                               !.code = 200, !.response = PendingBlockedMessage,
                               !.requires_approval = TRUE,
                               !.pending_tool = "process_refund"]
                /\ UNCHANGED <<checkpoint, pending_approvals, rejected_responses, req,
                               tool_executions, rejections, invocations, submitted>>
           ELSE /\ invocations < MaxInvocations
                /\ LET state == checkpoint[thread_id] IN
                   Save(thread_id,
                        Append(state.messages, HumanMessage(PosText("user", state.messages))),
                        state.route, "supervisor")
                /\ req' = [IdleReq EXCEPT !.kind = "chat", !.thread_id = thread_id,
                              !.customer_id = customer_id, !.phase = "run",
                              !.start = checkpoint[thread_id],
                              !.state = checkpoint'[thread_id]]
                /\ invocations' = invocations + 1
                /\ submitted' = [submitted EXCEPT ![thread_id] =
                                     Append(@, PosText("user", checkpoint[thread_id].messages))]
                /\ resp' = NoResp
                /\ UNCHANGED <<pending_approvals, rejected_responses, tool_executions,
                               rejections>>
        /\ UNCHANGED <<tool_vars, parked>>

(* supervisor node: a routing decision, or the fallback to support when    *)
(* the structured output cannot be obtained.                               *)
FallbackText == "[Routing to support: parsing error fallback]"

\* Mutant: the failure of the routing call is not caught and aborts the turn
SupervisorReturns_Uncaught(decision) ==
    /\ Running
    /\ CurrentNode = "supervisor"
    /\ IF decision = "fallback"
       THEN /\ req' = [req EXCEPT !.phase = "error"]
            /\ UNCHANGED checkpoint
       ELSE LET state == req.state
                messages == Append(state.messages,
                                   AIMessage("supervisor", <<>>,
                                             "[Routing to " \o decision \o "]"))
            IN /\ Save(req.thread_id, messages, decision,
                       route_supervisor([state EXCEPT !.route = decision]))
               /\ AfterNode("worker")
    /\ UNCHANGED <<pending_approvals, rejected_responses, resp, tool_executions,
                   rejections, invocations>>
    /\ UNCHANGED <<tool_vars, parked, submitted>>

\* The supervisor node for one outcome of router_model.invoke: a decision for
\* "music" or "support", or "fallback" when the call raised
SupervisorReturns(decision) ==
    /\ Running
    /\ CurrentNode = "supervisor"
    /\ LET state == req.state
           route == IF decision = "music" THEN "music" ELSE "support"
           text == IF decision = "fallback"
                   THEN FallbackText
                   ELSE "[Routing to " \o route \o "]"
           messages == Append(state.messages, AIMessage("supervisor", <<>>, text))
       IN /\ Save(req.thread_id, messages, route,
                  route_supervisor([state EXCEPT !.route = route]))
          /\ AfterNode("worker")
    /\ UNCHANGED <<pending_approvals, rejected_responses, resp, tool_executions,
                   rejections, invocations>>
    /\ UNCHANGED <<tool_vars, parked, submitted>>

supervisor == \E decision \in {"music", "support", "fallback"} : SupervisorReturns(decision)

RECURSIVE SumOver(_, _)
SumOver(f, S) ==
    IF S = {} THEN 0
    ELSE LET x == CHOOSE y \in S : TRUE IN f[x] + SumOver(f, S \ {x})

\* Number of worker replies with tool calls so far
ToolBatches ==
    SumOver([t \in Threads |->
                Len(SelectSeq(checkpoint[t].messages,
                              LAMBDA m : m.type = "ai" /\ m.tool_calls # <<>>))],
            Threads)

\* Number of worker replies with tool calls in the state the run holds
RunToolBatches ==
    Len(SelectSeq(req.state.messages, LAMBDA m : m.type = "ai" /\ m.tool_calls # <<>>))

\* A worker node: the model's reply is appended and the conditional edge taken
\* A worker node whose model call returns a reply with the calls of batch,
\* or a final reply with or without text
WorkerReplies(node, batch, has_text) ==
    /\ Running
    /\ CurrentNode = node
    /\ batch # <<>> => ~has_text
    /\ LET state == req.state
           text == IF has_text THEN PosText("agent", state.messages) ELSE ""
           messages == Append(state.messages,
                              AIMessage("", ToolCalls(batch, state.messages), text))
           after == [state EXCEPT !.messages = messages]
           target == IF node = "music_expert"
                     THEN MusicEdges(should_continue_music(after))
                     ELSE SupportEdges(should_continue_support(after))
       IN /\ Save(req.thread_id, messages, state.route, target)
          /\ AfterNode(target)
    /\ UNCHANGED <<pending_approvals, rejected_responses, resp, tool_executions,
                   rejections, invocations>>
    /\ UNCHANGED <<tool_vars, parked, submitted>>

Worker(node, batches) ==
    \E batch \in batches, has_text \in BOOLEAN :
        /\ batch # <<>> =>
              ToolBatches < MaxToolBatches /\ RunToolBatches < MaxToolBatches
        /\ WorkerReplies(node, batch, has_text)

music_expert == Worker("music_expert", MusicBatches)

support_rep == Worker("support_rep", SupportBatches)

\* The reasoning capability raises inside a worker: graph.invoke raises, and
\* the last stored snapshot (next = the worker) stays
WorkerRaises ==
    /\ Running
    /\ CurrentNode \in {"music_expert", "support_rep"}
    /\ req' = [req EXCEPT !.phase = "error"]
    /\ UNCHANGED <<checkpoint, pending_approvals, rejected_responses, resp,
                   tool_executions, rejections, invocations>>
    /\ UNCHANGED <<tool_vars, parked, submitted>>

\* interrupt_before: the run stops before the node, unless it is resuming there
Interrupt ==
    /\ Running
    /\ CurrentNode \in graph.interrupt_before
    /\ ~req.resuming
    /\ req' = [req EXCEPT !.phase = "interrupted"]
    /\ UNCHANGED <<checkpoint, pending_approvals, rejected_responses, resp,
                   tool_executions, rejections, invocations>>
    /\ UNCHANGED <<tool_vars, parked, submitted>>

\* One entry of the history of tool executions: the call, the request and
\* node that ran it, and whether an approval was tracked for the thread then
Execution(call, outcome) ==
    [call_id |-> call.id, name |-> call.name, thread_id |-> req.thread_id,
     customer_id |-> req.customer_id, during |-> req.kind,
     node |-> req.state.next,
     pending |-> pending_approvals[req.thread_id] # NoRecord, outcome |-> outcome]

RECURSIVE Executions(_, _, _)
Executions(calls, tools, outcome) ==
    IF calls = <<>> THEN <<>>
    ELSE (IF Head(calls).name \in tools
          THEN <<Execution(Head(calls), outcome)>> ELSE <<>>)
         \o Executions(Tail(calls), tools, outcome)

\* ToolNode: one ToolMessage per requested call; a call whose name is not
\* one of the node's tools gets an error message and no tool runs for it
ToolMessages(calls, tools) ==
    [i \in 1..Len(calls) |->
        ToolMessage(calls[i].name, calls[i].id,
                    IF calls[i].name \in tools THEN "success" ELSE "error")]

ToolNode(node) ==
    /\ Running
    /\ CurrentNode = node
    /\ node \in graph.interrupt_before => req.resuming
    /\ LET state == req.state
           calls == Last(state.messages).tool_calls
       IN /\ Save(req.thread_id, state.messages \o ToolMessages(calls, NodeTools(node)),
                  state.route, ToolEdges(node))
          /\ tool_executions' =
                 [tool_executions EXCEPT ![req.thread_id] =
                     @ \o Executions(calls, NodeTools(node), "returned")]
    /\ AfterNode(ToolEdges(node))
    /\ UNCHANGED <<pending_approvals, rejected_responses, resp, rejections, invocations>>
    /\ UNCHANGED <<tool_vars, parked, submitted>>

music_tools == ToolNode("music_tools")

support_tools == ToolNode("support_tools")

refund_tools == ToolNode("refund_tools")

\* Number of tool executions that raised so far
Raised ==
    SumOver([t \in Threads |->
                Len(SelectSeq(tool_executions[t], LAMBDA e : e.outcome = "raised"))],
            Threads)

\* A tool raises out of its node after the retries: graph.invoke raises, and
\* the last stored snapshot (next = the tool node) stays
ToolNodeRaises ==
    /\ Running
    /\ Raised < MaxToolRaises
    /\ CurrentNode \in {"music_tools", "support_tools", "refund_tools"}
    /\ CurrentNode \in graph.interrupt_before => req.resuming
    /\ LET calls == Last(req.state.messages).tool_calls
           ran == Executions(calls, NodeTools(CurrentNode), "raised")
       IN /\ ran # <<>>
          /\ tool_executions' = [tool_executions EXCEPT ![req.thread_id] = @ \o ran]
    /\ req' = [req EXCEPT !.phase = "error"]
    /\ UNCHANGED <<checkpoint, pending_approvals, rejected_responses, resp,
                   rejections, invocations>>
    /\ UNCHANGED <<tool_vars, parked, submitted>>

\* Mutant: the interrupted turn is reported but never tracked
chat_return_NoRecord ==
    /\ req.kind = "chat"
    /\ req.phase \in {"done", "interrupted", "error"}
    /\ LET thread_id == req.thread_id
           out == [NoResp EXCEPT !.kind = "chat", !.thread_id = thread_id]
       IN IF req.phase = "error"
          THEN resp' = [out EXCEPT !.code = 500]
          ELSE IF check_graph_interrupted(thread_id)
          THEN resp' = [out EXCEPT !.code = 200, !.response = RequiresApprovalMessage,
                           !.requires_approval = TRUE,
                           !.pending_tool = "process_refund"]
          ELSE resp' = [out EXCEPT !.code = 200,
                           !.response = extract_assistant_response(req.state)]
    /\ req' = IdleReq
    /\ UNCHANGED <<checkpoint, pending_approvals, rejected_responses, tool_executions,
                   rejections, invocations>>
    /\ UNCHANGED <<tool_vars, parked, submitted>>

\* Mutant: the response after the run does not name the thread
chat_return_NoThreadId ==
    /\ req.kind = "chat"
    /\ req.phase \in {"done", "interrupted", "error"}
    /\ LET thread_id == req.thread_id
           out == [NoResp EXCEPT !.kind = "chat"]
       IN IF req.phase = "error"
          THEN /\ resp' = [out EXCEPT !.code = 500]
               /\ UNCHANGED pending_approvals
          ELSE IF check_graph_interrupted(thread_id)
          THEN /\ pending_approvals' =
                     [pending_approvals EXCEPT ![thread_id] =
                         [thread_id |-> thread_id, customer_id |-> req.customer_id,
                          tool |-> "process_refund"]]
               /\ resp' = [out EXCEPT !.code = 200, !.response = RequiresApprovalMessage,
                              !.requires_approval = TRUE,
                              !.pending_tool = "process_refund"]
          ELSE /\ resp' = [out EXCEPT !.code = 200,
                              !.response = extract_assistant_response(req.state)]
               /\ UNCHANGED pending_approvals
    /\ req' = IdleReq
    /\ UNCHANGED <<checkpoint, rejected_responses, tool_executions, rejections,
                   invocations>>
    /\ UNCHANGED <<tool_vars, parked, submitted>>

\* POST /chat: after graph.invoke
chat_return ==
    /\ req.kind = "chat"
    /\ req.phase \in {"done", "interrupted", "error"}
    /\ LET thread_id == req.thread_id
           out == [NoResp EXCEPT !.kind = "chat", !.thread_id = thread_id]
       IN IF req.phase = "error"
          THEN /\ resp' = [out EXCEPT !.code = 500]
               /\ UNCHANGED pending_approvals
          ELSE IF check_graph_interrupted(thread_id)
          THEN /\ pending_approvals' =
                     [pending_approvals EXCEPT ![thread_id] =
                         [thread_id |-> thread_id, customer_id |-> req.customer_id,
                          tool |-> "process_refund"]]
               /\ resp' = [out EXCEPT !.code = 200, !.response = RequiresApprovalMessage,
                              !.requires_approval = TRUE,
                              !.pending_tool = "process_refund"]
          ELSE /\ resp' = [out EXCEPT !.code = 200,
                              !.response = extract_assistant_response(req.state)]
               /\ UNCHANGED pending_approvals
    /\ req' = IdleReq
    /\ UNCHANGED <<checkpoint, rejected_responses, tool_executions, rejections,
                   invocations>>
    /\ UNCHANGED <<tool_vars, parked, submitted>>

\* Mutant: approve resumes the graph without checking for a pending approval
approve_action_NoCheck(thread_id, customer_id) ==
    /\ req.kind = "idle"
    /\ invocations < MaxInvocations
    /\ req' = [IdleReq EXCEPT !.kind = "approve", !.thread_id = thread_id,
                  !.customer_id = customer_id, !.resuming = TRUE,
                  !.start = checkpoint[thread_id],
                  !.state = checkpoint[thread_id],
                  !.phase = IF checkpoint[thread_id].next = "" THEN "done" ELSE "run"]
    /\ invocations' = invocations + 1
    /\ resp' = NoResp
    /\ UNCHANGED <<checkpoint, pending_approvals, rejected_responses,
                   tool_executions, rejections>>
    /\ UNCHANGED <<tool_vars, parked, submitted>>

(* POST /approve/{thread_id}: entry.  400 without a tracked pending        *)
(* approval; otherwise graph.invoke(None), which resumes the snapshot.     *)
approve_action(thread_id, customer_id) ==
    /\ req.kind = "idle"
    /\ IF ~check_pending_approval(thread_id)
       THEN /\ resp' = [NoResp EXCEPT !.kind = "approve", !.thread_id = thread_id,
                           !.code = 400, !.response = NoPendingDetail]
            /\ UNCHANGED <<req, invocations>>
       ELSE /\ invocations < MaxInvocations
            /\ req' = [IdleReq EXCEPT !.kind = "approve", !.thread_id = thread_id,
                          !.customer_id = customer_id, !.resuming = TRUE,
                          !.start = checkpoint[thread_id],
                          !.state = checkpoint[thread_id],
                          !.phase = IF checkpoint[thread_id].next = ""
                                    THEN "done" ELSE "run"]
            /\ invocations' = invocations + 1
            /\ resp' = NoResp
    /\ UNCHANGED <<checkpoint, pending_approvals, rejected_responses,
                   tool_executions, rejections>>
    /\ UNCHANGED <<tool_vars, parked, submitted>>

\* Mutant: the pending record is removed whether or not the resume succeeded
approve_return_AlwaysPops ==
    /\ req.kind = "approve"
    /\ req.phase \in {"done", "interrupted", "error"}
    /\ LET thread_id == req.thread_id
           out == [NoResp EXCEPT !.kind = "approve", !.thread_id = thread_id]
       IN IF req.phase = "error"
          THEN /\ resp' = [out EXCEPT !.code = 500]
               /\ pending_approvals' = [pending_approvals EXCEPT ![thread_id] = NoRecord]
          ELSE /\ pending_approvals' = [pending_approvals EXCEPT ![thread_id] = NoRecord]
               /\ resp' = [out EXCEPT !.code = 200,
                              !.response = "Approved! " \o
                                  extract_assistant_response(req.state)]
    /\ req' = IdleReq
    /\ UNCHANGED <<checkpoint, rejected_responses, tool_executions, rejections,
                   invocations>>
    /\ UNCHANGED <<tool_vars, parked, submitted>>

\* POST /approve/{thread_id}: after graph.invoke
approve_return ==
    /\ req.kind = "approve"
    /\ req.phase \in {"done", "interrupted", "error"}
    /\ LET thread_id == req.thread_id
           out == [NoResp EXCEPT !.kind = "approve", !.thread_id = thread_id]
       IN IF req.phase = "error"
          THEN /\ resp' = [out EXCEPT !.code = 500]
               /\ UNCHANGED pending_approvals
          ELSE /\ pending_approvals' = [pending_approvals EXCEPT ![thread_id] = NoRecord]
               /\ resp' = [out EXCEPT !.code = 200,
                              !.response = "Approved! " \o
                                  extract_assistant_response(req.state)]
    /\ req' = IdleReq
    /\ UNCHANGED <<checkpoint, rejected_responses, tool_executions, rejections,
                   invocations>>
    /\ UNCHANGED <<tool_vars, parked, submitted>>

\* The ids of the calls the snapshot is suspended before: the tool calls of
\* the last message when the next node is a tool node
DeferredCalls(thread_id) ==
    LET state == checkpoint[thread_id] IN
    IF state.next \in {"music_tools", "support_tools", "refund_tools"}
    THEN {Last(state.messages).tool_calls[i].id :
             i \in 1..Len(Last(state.messages).tool_calls)}
    ELSE {}

\* Mutant: the rejection is also written into the thread as a user message
reject_action_FeedsUser(thread_id, customer_id) ==
    /\ req.kind = "idle"
    /\ check_pending_approval(thread_id)
    /\ pending_approvals' = [pending_approvals EXCEPT ![thread_id] = NoRecord]
    /\ rejected_responses' = [rejected_responses EXCEPT ![thread_id] = RejectionMessage]
    /\ checkpoint' = [checkpoint EXCEPT ![thread_id].messages =
                         Append(@, HumanMessage("rejected"))]
    /\ resp' = [NoResp EXCEPT !.kind = "reject", !.thread_id = thread_id,
                   !.code = 200, !.response = RejectionMessage]
    /\ rejections' = [rejections EXCEPT ![thread_id] =
                         [rejected |-> TRUE,
                          calls |-> @.calls \cup DeferredCalls(thread_id)]]
    /\ UNCHANGED <<req, tool_executions, invocations>>
    /\ UNCHANGED <<tool_vars, parked, submitted>>

\* Mutant: a reject drops the pending records of all threads
reject_action_ClearsAll(thread_id, customer_id) ==
    /\ req.kind = "idle"
    /\ IF ~check_pending_approval(thread_id)
       THEN /\ resp' = [NoResp EXCEPT !.kind = "reject", !.thread_id = thread_id,
                           !.code = 400, !.response = NoPendingDetail]
            /\ UNCHANGED <<pending_approvals, rejected_responses, rejections>>
       ELSE /\ pending_approvals' = [t \in Threads |-> NoRecord]
            /\ rejected_responses' =
                   [rejected_responses EXCEPT ![thread_id] = RejectionMessage]
            /\ resp' = [NoResp EXCEPT !.kind = "reject", !.thread_id = thread_id,
                           !.code = 200, !.response = RejectionMessage]
            /\ rejections' = [rejections EXCEPT ![thread_id] =
                                 [rejected |-> TRUE,
                                  calls |-> @.calls \cup DeferredCalls(thread_id)]]
    /\ UNCHANGED <<checkpoint, req, tool_executions, invocations>>
    /\ UNCHANGED <<tool_vars, parked, submitted>>

\* POST /reject/{thread_id}
reject_action(thread_id, customer_id) ==
    /\ req.kind = "idle"
    /\ IF ~check_pending_approval(thread_id)
       THEN /\ resp' = [NoResp EXCEPT !.kind = "reject", !.thread_id = thread_id,
                           !.code = 400, !.response = NoPendingDetail]
            /\ UNCHANGED <<pending_approvals, rejected_responses, rejections>>
       ELSE /\ pending_approvals' = [pending_approvals EXCEPT ![thread_id] = NoRecord]
            /\ rejected_responses' =
                   [rejected_responses EXCEPT ![thread_id] = RejectionMessage]
            /\ resp' = [NoResp EXCEPT !.kind = "reject", !.thread_id = thread_id,
                           !.code = 200, !.response = RejectionMessage]
            /\ rejections' = [rejections EXCEPT ![thread_id] =
                                 [rejected |-> TRUE,
                                  calls |-> @.calls \cup DeferredCalls(thread_id)]]
    /\ UNCHANGED <<checkpoint, req, tool_executions, invocations>>
    /\ UNCHANGED <<tool_vars, parked, submitted>>

\* Mutant: a thread without messages is not told apart from a finished one
StatusOf_NoUnknown(thread_id) ==
    LET state == checkpoint[thread_id] IN
    IF rejected_responses[thread_id] # NoText
    THEN [status |-> "completed", message |-> rejected_responses[thread_id]]
    ELSE IF pending_approvals[thread_id] # NoRecord
    THEN [status |-> "pending", message |-> WaitingMessage]
    ELSE IF state.next = ""
    THEN [status |-> "completed", message |-> extract_assistant_response(state)]
    ELSE [status |-> "completed", message |-> StaleInterruptMessage]

\* The body returned by GET /status/{thread_id}
StatusOf(thread_id) ==
    LET state == checkpoint[thread_id] IN
    IF rejected_responses[thread_id] # NoText
    THEN [status |-> "completed", message |-> rejected_responses[thread_id]]
    ELSE IF pending_approvals[thread_id] # NoRecord
    THEN [status |-> "pending", message |-> WaitingMessage]
    ELSE IF state.messages = <<>>
    THEN [status |-> "unknown", message |-> "Thread not found"]
    ELSE IF state.next = ""
    THEN [status |-> "completed", message |-> extract_assistant_response(state)]
    ELSE [status |-> "completed", message |-> StaleInterruptMessage]

\* Mutant: the stored rejection is removed once it has been returned
get_thread_status_Pop(thread_id, customer_id) ==
    /\ req.kind = "idle"
    /\ resp' = [NoResp EXCEPT !.kind = "status", !.thread_id = thread_id,
                   !.code = 200, !.status = StatusOf(thread_id).status,
                   !.response = StatusOf(thread_id).message]
    /\ rejected_responses' = [rejected_responses EXCEPT ![thread_id] = NoText]
    /\ UNCHANGED <<checkpoint, pending_approvals, req, tool_executions, rejections,
                   invocations>>
    /\ UNCHANGED <<tool_vars, parked, submitted>>

\* GET /status/{thread_id}
get_thread_status(thread_id, customer_id) ==
    /\ req.kind = "idle"
    /\ resp' = [NoResp EXCEPT !.kind = "status", !.thread_id = thread_id,
                   !.code = 200, !.status = StatusOf(thread_id).status,
                   !.response = StatusOf(thread_id).message]
    /\ UNCHANGED <<checkpoint, pending_approvals, rejected_responses, req,
                   tool_executions, rejections, invocations>>
    /\ UNCHANGED <<tool_vars, parked, submitted>>

\* GET /admin/pending: the values of pending_approvals
get_pending_approvals ==
    /\ req.kind = "idle"
    /\ resp' = [NoResp EXCEPT !.kind = "admin", !.code = 200,
                   !.pending = {pending_approvals[t] : t \in Threads} \ {NoRecord}]
    /\ UNCHANGED <<checkpoint, pending_approvals, rejected_responses, req,
                   tool_executions, rejections, invocations>>
    /\ UNCHANGED <<tool_vars, parked, submitted>>

----------------------------------------------------------------------------

Next ==
    \/ \E t \in Threads \cup {""}, c \in Customers : chat(t, c)
    \/ supervisor
    \/ music_expert
    \/ support_rep
    \/ WorkerRaises
    \/ Interrupt
    \/ music_tools
    \/ support_tools
    \/ refund_tools
    \/ ToolNodeRaises
    \/ chat_return
    \/ \E t \in Threads, c \in Customers : approve_action(t, c)
    \/ approve_return
    \/ \E t \in Threads, c \in Customers : reject_action(t, c)
    \/ \E t \in Threads, c \in Customers : get_thread_status(t, c)
    \/ get_pending_approvals

Spec == Init /\ [][Next]_all_vars

----------------------------------------------------------------------------
(* Concurrent requests.  The endpoints are plain functions, which the      *)
(* server runs in a pool of worker threads, and the service takes no lock: *)
(* a second request may start while one is in flight, on the same thread   *)
(* or on another.  One request takes a step at a time; the others wait     *)
(* in parked, each with the state its run holds.  A step of a run stores   *)
(* the state the run holds, whatever another run has stored meanwhile.     *)

\* The worker thread of the request in flight is descheduled
Park ==
    /\ req.kind \in {"chat", "approve"}
    /\ Cardinality(parked) < MaxParked
    /\ parked' = parked \cup {req}
    /\ req' = IdleReq
    /\ UNCHANGED <<checkpoint, pending_approvals, rejected_responses, resp,
                   tool_executions, rejections, invocations, submitted, tool_vars>>

\* A waiting worker thread is scheduled again
Unpark ==
    /\ req.kind = "idle"
    /\ \E r \in parked :
         /\ req' = r
         /\ parked' = parked \ {r}
    /\ UNCHANGED <<checkpoint, pending_approvals, rejected_responses, resp,
                   tool_executions, rejections, invocations, submitted, tool_vars>>

ConcNext ==
    \/ Next
    \/ Park
    \/ Unpark

ConcSpec == Init /\ [][ConcNext]_all_vars

----------------------------------------------------------------------------
(* Concurrent requests for a pending approval.  The service is taken up    *)
(* in the state a chat turn of a customer leaves behind when its           *)
(* support_rep asked for a refund: the thread suspended before             *)
(* refund_tools, the record tracked, the chat answered.  invocations       *)
(* counts the graph invocations from that state on, so that two resumes    *)
(* fit into MaxInvocations.                                                *)

GateThread == "t1"

GateMessages ==
    LET routed == <<HumanMessage("user1"),
                    AIMessage("supervisor", <<>>, "[Routing to support]")>>
    IN Append(routed, AIMessage("", ToolCalls(<<"process_refund">>, routed), ""))

\* The service with thread_id suspended at the gate for customer_id
SuspendedAtGate(thread_id, customer_id) ==
    /\ checkpoint = [t \in Threads |->
                        IF t = thread_id
                        THEN [messages |-> GateMessages, route |-> "support",
                              next |-> "refund_tools"]
                        ELSE EmptySnapshot]
    /\ pending_approvals = [t \in Threads |->
                               IF t = thread_id
                               THEN [thread_id |-> thread_id,
                                     customer_id |-> customer_id,
                                     tool |-> "process_refund"]
                               ELSE NoRecord]
    /\ rejected_responses = [t \in Threads |-> NoText]
    /\ req = IdleReq
    /\ resp = [NoResp EXCEPT !.kind = "chat", !.thread_id = thread_id,
                   !.code = 200, !.response = RequiresApprovalMessage,
                   !.requires_approval = TRUE, !.pending_tool = "process_refund"]
    /\ tool_executions = [t \in Threads |-> <<>>]
    /\ rejections = [t \in Threads |-> [rejected |-> FALSE, calls |-> {}]]
    /\ submitted = [t \in Threads |-> IF t = thread_id THEN <<"user1">> ELSE <<>>]
    /\ parked = {}

GateInit ==
    /\ \E customer_id \in Customers : SuspendedAtGate(GateThread, customer_id)
    /\ invocations = 0
    /\ db = [i \in Invoices |-> i]
    /\ tool_run = NoRun
    /\ model_run = NoModelRun
    /\ graph = create_graph(TRUE)

ApprovalSpec == GateInit /\ [][ConcNext]_all_vars

----------------------------------------------------------------------------
(* The compiled graph invoked directly, as the tests do, built with or     *)
(* without a checkpointer.  Without one nothing is stored: a run starts    *)
(* from the input alone and its state is gone when it has returned;        *)
(* checkpoint then holds the channel values of the run in progress only.   *)

GraphInit ==
    /\ ServiceInit
    /\ db = [i \in Invoices |-> i]
    /\ tool_run = NoRun
    /\ model_run = NoModelRun
    /\ graph \in {create_graph(TRUE), create_graph(FALSE)}

\* graph.invoke({"messages": [HumanMessage(...)]}, config, context=...)
invoke(thread_id, customer_id) ==
    /\ req.kind = "idle"
    /\ invocations < MaxInvocations
    /\ LET start == IF graph.checkpointer THEN checkpoint[thread_id] ELSE EmptySnapshot
       IN /\ Save(thread_id,
                  Append(start.messages, HumanMessage(PosText("user", start.messages))),
                  start.route, "supervisor")
          /\ req' = [IdleReq EXCEPT !.kind = "invoke", !.thread_id = thread_id,
                        !.customer_id = customer_id, !.phase = "run",
                        !.start = start, !.state = checkpoint'[thread_id]]
          /\ submitted' = [submitted EXCEPT ![thread_id] =
                               Append(@, PosText("user", start.messages))]
    /\ invocations' = invocations + 1
    /\ resp' = NoResp
    /\ UNCHANGED <<pending_approvals, rejected_responses, tool_executions, rejections>>
    /\ UNCHANGED <<tool_vars, parked>>

\* graph.invoke(None, config, context=...): continues the stored snapshot
resume(thread_id, customer_id) ==
    /\ req.kind = "idle"
    /\ graph.checkpointer
    /\ invocations < MaxInvocations
    /\ req' = [IdleReq EXCEPT !.kind = "resume", !.thread_id = thread_id,
                  !.customer_id = customer_id, !.resuming = TRUE,
                  !.start = checkpoint[thread_id],
                  !.state = checkpoint[thread_id],
                  !.phase = IF checkpoint[thread_id].next = "" THEN "done" ELSE "run"]
    /\ invocations' = invocations + 1
    /\ resp' = NoResp
    /\ UNCHANGED <<checkpoint, pending_approvals, rejected_responses,
                   tool_executions, rejections>>
    /\ UNCHANGED <<tool_vars, parked, submitted>>

\* graph.invoke returns the state of the run, or raises
invoke_return ==
    /\ req.kind \in {"invoke", "resume"}
    /\ req.phase \in {"done", "interrupted", "error"}
    /\ resp' = [NoResp EXCEPT !.kind = req.kind, !.thread_id = req.thread_id,
                   !.status = IF req.phase = "error" THEN "raised" ELSE "returned",
                   !.response = IF req.phase = "error" THEN ""
                                ELSE extract_assistant_response(req.state)]
    /\ checkpoint' = IF graph.checkpointer THEN checkpoint
                     ELSE [checkpoint EXCEPT ![req.thread_id] = EmptySnapshot]
    /\ req' = IdleReq
    /\ UNCHANGED <<pending_approvals, rejected_responses, tool_executions,
                   rejections, invocations>>
    /\ UNCHANGED <<tool_vars, parked, submitted>>

GraphNext ==
    \/ \E t \in Threads, c \in Customers : invoke(t, c)
    \/ \E t \in Threads, c \in Customers : resume(t, c)
    \/ supervisor
    \/ music_expert
    \/ support_rep
    \/ WorkerRaises
    \/ Interrupt
    \/ music_tools
    \/ support_tools
    \/ refund_tools
    \/ ToolNodeRaises
    \/ invoke_return

GraphSpec == GraphInit /\ [][GraphNext]_all_vars

----------------------------------------------------------------------------
(* The worker/tool loop with a model that may ask for tools in every       *)
(* reply.  The graph library counts the steps of a run and raises          *)
(* GraphRecursionError when the run has taken recursion_limit steps        *)
(* without reaching END; no call in the repository sets the limit, so the  *)
(* library's default applies, scaled down here.                            *)

RecursionLimit == 6

\* The steps a run has taken: one per agent message it appended and one per
\* batch of tool messages
Steps(r) ==
    LET new == SubSeq(r.state.messages, Len(r.start.messages) + 1,
                      Len(r.state.messages))
    IN Cardinality({ i \in 1..Len(new) :
                       \/ new[i].type = "ai"
                       \/ /\ new[i].type = "tool"
                          /\ (i = 1 \/ new[i - 1].type # "tool") })

\* Mutant: the library puts no limit on the steps of a run
GraphRecursionError_Never == FALSE

\* The run is out of steps
GraphRecursionError ==
    /\ Running
    /\ Steps(req) >= RecursionLimit
    /\ req' = [req EXCEPT !.phase = "error"]
    /\ UNCHANGED <<checkpoint, pending_approvals, rejected_responses, resp,
                   tool_executions, rejections, invocations>>
    /\ UNCHANGED <<tool_vars, parked, submitted>>

LoopWorker(node, batches) ==
    \E batch \in batches, has_text \in BOOLEAN :
        /\ Steps(req) < RecursionLimit
        /\ WorkerReplies(node, batch, has_text)

\* One step of the run in progress
RunStep ==
    \/ supervisor
    \/ LoopWorker("music_expert", MusicBatches)
    \/ LoopWorker("support_rep", SupportBatches)
    \/ Steps(req) < RecursionLimit /\ Interrupt
    \/ Steps(req) < RecursionLimit /\ music_tools
    \/ Steps(req) < RecursionLimit /\ support_tools
    \/ Steps(req) < RecursionLimit /\ refund_tools
    \/ GraphRecursionError

LoopNext ==
    \/ \E t \in Threads, c \in Customers : invoke(t, c)
    \/ \E t \in Threads, c \in Customers : resume(t, c)
    \/ RunStep
    \/ WorkerRaises
    \/ ToolNodeRaises
    \/ invoke_return

LoopSpec == Init /\ [][LoopNext]_all_vars

\* A run in progress is not left waiting: the thread that called graph.invoke
\* keeps executing it
LoopFairSpec == LoopSpec /\ WF_all_vars(RunStep)

----------------------------------------------------------------------------
(* The support tools called directly, as the tool node and the tests call  *)
(* them: any tool, any arguments, any config, over any Invoice table, in   *)
(* a thread whose last user message has any content.                       *)

Contents == {"refund my invoice", "I am customer 2, refund invoice 2"}

ToolInit ==
    /\ ServiceInit
    /\ db \in Tables
    /\ tool_run = NoRun
    /\ model_run = NoModelRun
    /\ graph = create_graph(TRUE)

\* The customer_id arguments a runtime context is constructed with
ContextArgs == {None} \cup Customers

InvokeTool(tool, args, config, content, context_arg) ==
    /\ tool_run' = [tool |-> tool, args |-> args, config |-> config,
                    content |-> content, context_arg |-> context_arg,
                    context |-> CustomerContext(context_arg), via |-> "direct",
                    out |-> CallTool(tool, args, config, db)]
    /\ UNCHANGED <<db, graph, model_run, vars, parked>>

\* build_config(thread_id, customer_id): the config the API hands to
\* graph.invoke (run_name and tags left out)
build_config(thread_id, customer_id) ==
    [configurable |-> [thread_id |-> thread_id]]

\* A support tool run by a tool node of a chat turn or a resume started
\* through the API: graph.invoke(..., config, context={"customer_id": ...})
ApiInvokeTool(tool, args, thread_id, customer_id, content) ==
    /\ tool_run' = [tool |-> tool, args |-> args,
                    config |-> build_config(thread_id, customer_id),
                    content |-> content, context_arg |-> customer_id,
                    context |-> CustomerContext(customer_id), via |-> "api",
                    out |-> CallTool(tool, args,
                                     build_config(thread_id, customer_id), db)]
    /\ UNCHANGED <<db, graph, model_run, vars, parked>>

ToolNext ==
    \/ \E tool \in SUPPORT_TOOLS, args \in ToolArgs, config \in Configs,
          content \in Contents, context_arg \in ContextArgs :
             InvokeTool(tool, args, config, content, context_arg)
    \/ \E tool \in SUPPORT_TOOLS, args \in ToolArgs, thread_id \in Threads,
          customer_id \in Customers, content \in Contents :
             ApiInvokeTool(tool, args, thread_id, customer_id, content)

ToolSpec == ToolInit /\ [][ToolNext]_all_vars

----------------------------------------------------------------------------
(* Properties *)

Range(s) == {s[i] : i \in 1..Len(s)}

AtRest == req.kind = "idle"

HasHITLCall(msg) ==
    /\ msg.type = "ai"
    /\ \E i \in 1..Len(msg.tool_calls) : msg.tool_calls[i].name \in HITL_TOOLS

\* C1: the body of process_refund runs for a thread only inside an approve
\* request for that same thread, accepted while a pending approval record of the
\* thread existed (the record is still tracked when the body runs); it never
\* runs inside a chat turn, and reject and status run no tool at all.
C1_RefundOnlyAfterApproval ==
    \A t \in Threads : \A e \in Range(tool_executions[t]) :
        e.name \in HITL_TOOLS =>
            /\ e.during = "approve"
            /\ e.thread_id = t
            /\ e.pending
            /\ e.node = "refund_tools"

C1_Witness ==
    \E t \in Threads : \E e \in Range(tool_executions[t]) :
        e.name = "process_refund" /\ e.outcome = "returned" /\ AtRest

\* The batch (the tool calls of one agent message) a logged execution belongs to
BatchOf(t, e) == checkpoint[t].messages[e.call_id \div 10]

\* C2 as claimed: from either worker, a last agent message with a call to a
\* requires-approval tool puts the thread at the approval gate, and no call of
\* such a batch runs outside an approved resume.
C2_Original ==
    \A t \in Threads :
        LET state == checkpoint[t] IN
        /\ (state.messages # <<>> /\ HasHITLCall(Last(state.messages)))
              => state.next = "refund_tools"
        /\ \A e \in Range(tool_executions[t]) :
              HasHITLCall(BatchOf(t, e)) => e.during = "approve"

\* C2 (amended): from support_rep, a last agent message with a call to a
\* requires-approval tool puts the thread at the approval gate (next is
\* refund_tools), and every call of such a batch that ever runs (the refund or a
\* safe call requested with it) runs in refund_tools inside an approve while the
\* approval is tracked.  From music_expert every batch goes to music_tools.
C2_SupportBatchDeferred ==
    \A t \in Threads :
        LET state == checkpoint[t] IN
        /\ (state.messages # <<>> /\ HasHITLCall(Last(state.messages)))
              => \/ state.route # "music" /\ state.next = "refund_tools"
                 \/ state.route = "music" /\ state.next = "music_tools"
        /\ \A e \in Range(tool_executions[t]) :
              (HasHITLCall(BatchOf(t, e)) /\ e.node # "music_tools")
                  => e.during = "approve" /\ e.pending /\ e.node = "refund_tools"

C2_Witness ==
    \E t \in Threads :
        LET state == checkpoint[t] IN
        /\ AtRest
        /\ state.route = "support"
        /\ state.next = "refund_tools"
        /\ Len(Last(state.messages).tool_calls) = 2
        /\ pending_approvals[t] # NoRecord
        /\ tool_executions[t] = <<>>

\* C3 as claimed: at rest, next_step is non-empty exactly when a pending
\* approval record exists for the thread.
C3_Original ==
    AtRest => \A t \in Threads :
        (checkpoint[t].next # "") <=> (pending_approvals[t] # NoRecord)

\* C3 (amended): at rest, a thread with a pending approval record has a
\* non-empty next_step; the converse does not hold (after a reject, after a
\* failed turn and after an approve whose resumed run is suspended again the
\* snapshot keeps a non-empty next_step with no record).
C3_PendingImpliesSuspended ==
    AtRest => \A t \in Threads :
        (pending_approvals[t] # NoRecord) => (checkpoint[t].next # "")

C3_Witness ==
    \E t \in Threads :
        /\ AtRest
        /\ pending_approvals[t] # NoRecord
        /\ checkpoint[t].next = "refund_tools"
        /\ resp.kind = "chat" /\ resp.requires_approval

\* C4 as claimed: an approve that was accepted and returned leaves the thread
\* with an empty next_step and no pending approval record.
C4_Original ==
    (resp.kind = "approve" /\ resp.code = 200) =>
        /\ checkpoint[resp.thread_id].next = ""
        /\ pending_approvals[resp.thread_id] = NoRecord

\* C5 as claimed: once the deferred batch has been run on resume (the refund
\* call has its result), every call of that batch was executed exactly once.
C5_Original ==
    \A t \in Threads :
        \A p \in 1..Len(checkpoint[t].messages) :
            LET msg == checkpoint[t].messages[p]
                answered(call) ==
                    \E q \in 1..Len(checkpoint[t].messages) :
                        /\ checkpoint[t].messages[q].type = "tool"
                        /\ checkpoint[t].messages[q].tool_call_id = call.id
                        /\ checkpoint[t].messages[q].status = "success"
            IN (/\ HasHITLCall(msg)
                /\ \E i \in 1..Len(msg.tool_calls) :
                      msg.tool_calls[i].name \in HITL_TOOLS /\ answered(msg.tool_calls[i]))
               => \A j \in 1..Len(msg.tool_calls) :
                     Len(SelectSeq(tool_executions[t],
                                   LAMBDA e : e.call_id = msg.tool_calls[j].id)) = 1

\* The executions a step adds to a thread's history
NewExecutions(t) ==
    {tool_executions'[t][i] :
        i \in (Len(tool_executions[t]) + 1)..Len(tool_executions'[t])}

\* C6: an accepted reject runs no graph step: snapshots (messages, route,
\* next_step), tool history and request state are unchanged; it removes the
\* thread's pending record and stores the fixed rejection text for the thread.
\* No later step of any request executes a call that was deferred when the
\* reject was accepted.
C6_RejectFrame ==
    [][ /\ \A t \in Threads, c \in Customers :
              (reject_action(t, c) /\ pending_approvals[t] # NoRecord) =>
                  /\ UNCHANGED <<checkpoint, tool_executions, req, invocations>>
                  /\ pending_approvals' = [pending_approvals EXCEPT ![t] = NoRecord]
                  /\ rejected_responses' =
                         [rejected_responses EXCEPT ![t] = RejectionMessage]
                  /\ resp'.code = 200 /\ resp'.response = RejectionMessage
        /\ \A t \in Threads : \A e \in NewExecutions(t) :
              e.call_id \notin rejections[t].calls
      ]_vars

C6_Witness ==
    \E t \in Threads :
        /\ AtRest
        /\ rejections[t].calls # {}
        /\ rejected_responses[t] = RejectionMessage
        /\ checkpoint[t].next = "refund_tools"
        /\ DeferredCalls(t) \cap rejections[t].calls = {}
        /\ pending_approvals[t] # NoRecord

\* C7: once an approval of a thread has been rejected, every status query on
\* the thread returns 'completed' with the canned rejection message, and a
\* status query changes no stored state.
C7_StatusAfterReject ==
    [][ \A t \in Threads, c \in Customers :
            get_thread_status(t, c) =>
                /\ UNCHANGED <<checkpoint, pending_approvals, rejected_responses,
                               tool_executions, req, invocations>>
                /\ rejections[t].rejected =>
                       /\ resp'.status = "completed"
                       /\ resp'.response = RejectionMessage
      ]_vars

C7_Witness ==
    /\ resp.kind = "status"
    /\ resp.status = "completed"
    /\ resp.response = RejectionMessage
    /\ rejections[resp.thread_id].rejected
    /\ Len(checkpoint[resp.thread_id].messages) > 3

\* C8 as claimed: a status query answers 'pending' for a thread whenever a
\* pending approval record of the thread is outstanding.
C8_Original ==
    \A t \in Threads :
        pending_approvals[t] # NoRecord => StatusOf(t).status = "pending"

\* C9: approve or reject on a thread with no pending approval record answers
\* 400 'No pending approval for this thread', starts no graph run, executes no
\* tool and leaves snapshots, pending_approvals and rejected_responses unchanged.
C9_NoPendingIsClientError ==
    [][ \A t \in Threads, c \in Customers :
            ((approve_action(t, c) \/ reject_action(t, c))
                /\ pending_approvals[t] = NoRecord) =>
                /\ resp'.code = 400
                /\ resp'.response = NoPendingDetail
                /\ resp'.thread_id = t
                /\ UNCHANGED <<checkpoint, pending_approvals, rejected_responses,
                               tool_executions, req, invocations>>
      ]_vars

C9_Witness ==
    /\ resp.kind = "approve"
    /\ resp.code = 400
    /\ checkpoint[resp.thread_id].next = "refund_tools"
    /\ pending_approvals[resp.thread_id] = NoRecord

\* C10: while a pending approval record of a thread exists, a chat request on
\* the thread is answered with requires_approval and pending_tool
\* 'process_refund' and starts no graph run: no message is appended, no tool
\* runs and the thread's single pending record is left as it is.
C10_ChatBlockedWhilePending ==
    [][ \A t \in Threads, c \in Customers :
            (chat(t, c) /\ pending_approvals[t] # NoRecord) =>
                /\ resp'.code = 200
                /\ resp'.requires_approval
                /\ resp'.pending_tool = "process_refund"
                /\ resp'.thread_id = t
                /\ UNCHANGED <<checkpoint, pending_approvals, rejected_responses,
                               tool_executions, req, invocations>>
      ]_vars

C10_Witness ==
    /\ resp.kind = "chat"
    /\ resp.response = PendingBlockedMessage
    /\ pending_approvals[resp.thread_id] # NoRecord

\* C11: a pending approval record of a thread is created exactly by the return
\* of a chat turn on that thread that ended suspended at the approval gate; it
\* carries that request's thread_id and customer_id and the tool name
\* process_refund; a record is never altered, and it is removed only by the
\* return of a successfully resumed approve or by an accepted reject on its
\* thread.  The admin listing returns exactly the records outstanding.
C11_RecordLifecycle ==
    [][ /\ \A t \in Threads :
              LET record == pending_approvals[t]
                  suspended == /\ req.kind = "chat" /\ req.thread_id = t
                               /\ req.phase = "interrupted"
                               /\ checkpoint[t].next = "refund_tools"
              IN /\ (record = NoRecord /\ pending_approvals'[t] # NoRecord) =>
                        /\ suspended /\ chat_return
                        /\ pending_approvals'[t] =
                               [thread_id |-> t, customer_id |-> req.customer_id,
                                tool |-> "process_refund"]
                 /\ (suspended /\ chat_return) => pending_approvals'[t] # NoRecord
                 /\ (record # NoRecord /\ pending_approvals'[t] # record) =>
                        /\ pending_approvals'[t] = NoRecord
                        /\ \/ /\ approve_return /\ req.thread_id = t
                              /\ req.phase # "error" /\ resp'.code = 200
                           \/ /\ \E c \in Customers : reject_action(t, c)
                              /\ resp'.code = 200
        /\ get_pending_approvals =>
              /\ resp'.pending = {pending_approvals[t] : t \in Threads} \ {NoRecord}
              /\ \A t \in Threads :
                    pending_approvals[t] # NoRecord =>
                        \E r \in resp'.pending :
                            r.thread_id = t /\ r.tool = "process_refund"
              /\ UNCHANGED <<checkpoint, pending_approvals, rejected_responses>>
      ]_vars

C11_Witness ==
    /\ resp.kind = "admin"
    /\ Cardinality(resp.pending) = 2
    /\ \E r \in resp.pending : r.thread_id = "t1" /\ r.customer_id = 2
    /\ \E r \in resp.pending : r.thread_id = "t2" /\ r.customer_id = 1

C13_RefundOwnershipError ==
    (/\ tool_run.tool = "process_refund"
     /\ "customer_id" \in DOMAIN tool_run.config.configurable
     /\ tool_run.args.invoice_id \in DOMAIN db
     /\ db[tool_run.args.invoice_id] # tool_run.config.configurable.customer_id) =>
        /\ ~tool_run.out.raised
        /\ tool_run.out.value =
               "Error: Invoice " \o ToString(tool_run.args.invoice_id)
                   \o " not found in your account."

C13_Witness ==
    /\ tool_run.tool = "process_refund"
    /\ "customer_id" \in DOMAIN tool_run.config.configurable
    /\ tool_run.config.configurable.customer_id = 2
    /\ tool_run.args.invoice_id = 1
    /\ tool_run.args.customer_id = 1
    /\ db[1] = 1
    /\ tool_run.out.value = "Error: Invoice 1 not found in your account."

\* C14: when the supervisor's routing call fails, the turn is not aborted: the
\* supervisor step sets route to 'support', appends exactly one
\* supervisor-tagged message with the fallback note, and the run goes on at
\* support_rep.
C14_SupervisorFallback ==
    [][ SupervisorReturns("fallback") =>
            LET t == req.thread_id IN
            /\ checkpoint'[t].route = "support"
            /\ checkpoint'[t].messages =
                   Append(checkpoint[t].messages,
                          AIMessage("supervisor", <<>>, FallbackText))
            /\ checkpoint'[t].next = "support_rep"
            /\ req'.phase = "run" /\ req'.kind = req.kind /\ req'.thread_id = t
            /\ \A u \in Threads \ {t} : checkpoint'[u] = checkpoint[u]
      ]_all_vars

C14_Witness ==
    \E t \in Threads :
        LET messages == checkpoint[t].messages IN
        /\ AtRest
        /\ resp.kind = "chat" /\ resp.thread_id = t /\ resp.code = 200
        /\ Len(messages) = 6
        /\ messages[2].text = "[Routing to music]"
        /\ messages[5].name = "supervisor" /\ messages[5].text = FallbackText
        /\ messages[6].type = "ai" /\ messages[6].name = ""
        /\ resp.response = messages[6].text
        /\ checkpoint[t].route = "support"

\* C15 as claimed: an error raised by the reasoning capability in the
\* supervisor, in music_expert or in support_rep makes the run fail (nothing is
\* appended for the failed call), and the failed run is answered with an
\* internal error and no reply.
C15_Original ==
    [][ /\ (SupervisorReturns("fallback") \/ WorkerRaises) =>
              /\ req'.phase = "error"
              /\ UNCHANGED checkpoint
        /\ ((chat_return \/ approve_return) /\ req.phase = "error") =>
              /\ resp'.code = 500
              /\ resp'.response = ""
      ]_all_vars

\* C16 as claimed: when a chat turn or a resume aborts with an error, the
\* thread's stored state (messages, route, next_step) is the snapshot that was
\* stored when the aborted invocation began.
C16_Original ==
    [][ ((chat_return \/ approve_return) /\ req.phase = "error") =>
            /\ resp'.code = 500
            /\ checkpoint'[req.thread_id] = req.start
      ]_all_vars

\* The requests in flight: the one taking steps and the waiting ones
InFlight == {r \in parked \cup {req} : r.kind \in {"chat", "approve"}}

\* C17 as claimed: requests for one thread are serialized: no two graph
\* invocations of one thread are in progress at the same time, and between an
\* approve's check of the pending record and its removal of it no other request
\* has acted on the record.
C17_Original ==
    /\ \A r1, r2 \in InFlight :
          (r1 # r2 /\ r1.phase = "run" /\ r2.phase = "run") =>
              r1.thread_id # r2.thread_id
    /\ \A r \in InFlight :
          r.kind = "approve" => pending_approvals[r.thread_id] # NoRecord

\* The texts of the user messages of a stored sequence, in order
UserTexts(messages) ==
    LET users == SelectSeq(messages, LAMBDA m : m.type = "human")
    IN [i \in 1..Len(users) |-> users[i].text]

\* C18: the user messages stored for a thread are exactly the user texts of
\* the chat turns that were handed to the state machine on that thread (a chat
\* blocked by a pending approval is not), each once and in submission order,
\* also when a turn was suspended at the approval gate and later resumed.
C18_UserTurnsRoundTrip ==
    \A t \in Threads : UserTexts(checkpoint[t].messages) = submitted[t]

C18_Witness ==
    \E t \in Threads :
        /\ AtRest
        /\ Len(submitted[t]) = 1
        /\ resp.kind = "approve" /\ resp.code = 200 /\ resp.thread_id = t
        /\ \E e \in Range(tool_executions[t]) : e.name = "process_refund"
        /\ checkpoint[t].next = ""
        /\ Len(checkpoint[t].messages) > 4

IsPrefix(s1, s2) == Len(s1) <= Len(s2) /\ SubSeq(s2, 1, Len(s1)) = s1

\* C19: the stored message sequence of a thread is append-only: over every
\* step of a chat, approve, reject or status request, the sequence stored
\* before the step is a prefix of the sequence stored after it.
C19_AppendOnly ==
    [][ \A t \in Threads :
            IsPrefix(checkpoint[t].messages, checkpoint'[t].messages)
      ]_all_vars

C19_Witness ==
    \E t \in Threads :
        /\ resp.kind = "status" /\ resp.thread_id = t
        /\ Len(submitted[t]) = 2
        /\ Len(checkpoint[t].messages) >= 7
        /\ \E i \in 1..Len(checkpoint[t].messages) :
              checkpoint[t].messages[i].type = "tool"

\* C20: a status query answers 'unknown', as a normal response, exactly when
\* the thread has no rejection entry, no pending record and no stored
\* messages; it creates no thread and changes no stored state.
C20_UnknownStatus ==
    [][ \A t \in Threads, c \in Customers :
            get_thread_status(t, c) =>
                /\ resp'.code = 200
                /\ resp'.status = "unknown" <=>
                       /\ rejected_responses[t] = NoText
                       /\ pending_approvals[t] = NoRecord
                       /\ checkpoint[t].messages = <<>>
                /\ resp'.status = "unknown" => checkpoint'[t] = EmptySnapshot
                /\ UNCHANGED <<checkpoint, pending_approvals, rejected_responses,
                               tool_executions, submitted>>
      ]_all_vars

C20_Witness ==
    /\ resp.kind = "status"
    /\ resp.status = "unknown"
    /\ resp.code = 200
    /\ checkpoint[resp.thread_id] = EmptySnapshot
    /\ \E t \in Threads : pending_approvals[t] # NoRecord

\* C21 as claimed: a status query on a thread whose snapshot has a non-empty
\* next_step, no pending record and no rejection entry answers 'completed' with
\* the generic closing message; on a thread whose next_step is empty and that
\* has messages it answers 'completed' with the latest non-supervisor agent text.
C21_Original ==
    AtRest =>
        \A t \in Threads :
            LET state == checkpoint[t] IN
            /\ (/\ state.next # ""
                /\ pending_approvals[t] = NoRecord
                /\ rejected_responses[t] = NoText) =>
                    StatusOf(t) = [status |-> "completed",
                                   message |-> StaleInterruptMessage]
            /\ (state.next = "" /\ state.messages # <<>>) =>
                    StatusOf(t) = [status |-> "completed",
                                   message |-> extract_assistant_response(state)]

\* C22: every turn enters at the supervisor, and the step taken at the
\* supervisor hands the run over to exactly one worker, music_expert when the
\* route is 'music' and support_rep for every other route value, a missing one
\* included; the run is still going after that step and no response is made.
C22_SupervisorHandsOver ==
    [][ /\ (req.kind = "idle" /\ req'.kind = "chat") =>
              /\ req'.phase = "run"
              /\ req'.state.next = "supervisor"
              /\ checkpoint'[req'.thread_id].next = "supervisor"
        /\ (Running /\ CurrentNode = "supervisor") =>
              /\ req'.kind = "chat" /\ req'.phase = "run"
              /\ req'.state.next =
                    IF req'.state.route = "music" THEN "music_expert" ELSE "support_rep"
              /\ checkpoint'[req.thread_id] = req'.state
              /\ Last(req'.state.messages).name = "supervisor"
              /\ resp' = resp
        /\ \A route \in {"music", "support", "other", ""} :
              route_supervisor([EmptySnapshot EXCEPT !.route = route]) =
                    IF route = "music" THEN "music_expert" ELSE "support_rep"
      ]_all_vars

C22_Witness ==
    /\ Running
    /\ req.state.route = "music"
    /\ req.state.next = "music_expert"
    /\ Last(req.state.messages).name = "supervisor"
    /\ Len(req.state.messages) > 2

\* Number of supervisor messages the run in progress has added to its thread
SupervisorRuns(r) ==
    Len(SelectSeq(SubSeq(r.state.messages, Len(r.start.messages) + 1,
                         Len(r.state.messages)),
                  LAMBDA m : m.type = "ai" /\ m.name = "supervisor"))

\* C23: when a tool node has finished, the run continues at the worker that
\* requested the calls (music_tools to music_expert, support_tools and
\* refund_tools to support_rep, which is the worker of the thread's route),
\* never at the supervisor; a chat turn has run the supervisor exactly once as
\* soon as it has left it, and a resume never runs it.
C23_ToolsReturnToWorker ==
    [][ /\ (/\ Running
            /\ CurrentNode \in {"music_tools", "support_tools", "refund_tools"}
            /\ req'.phase = "run") =>
              /\ req'.state.next =
                    IF CurrentNode = "music_tools" THEN "music_expert" ELSE "support_rep"
              /\ req'.state.next =
                    IF req.state.route = "music" THEN "music_expert" ELSE "support_rep"
              /\ Last(req'.state.messages).type = "tool"
              /\ checkpoint'[req.thread_id] = req'.state
        /\ req'.kind = "approve" =>
              SupervisorRuns(req') = 0 /\ req'.state.next # "supervisor"
        /\ req'.kind = "chat" =>
              SupervisorRuns(req') = IF req'.state.next = "supervisor" THEN 0 ELSE 1
      ]_all_vars

C23_Witness ==
    /\ req.kind = "approve" /\ req.phase = "done"
    /\ SupervisorRuns(req) = 0
    /\ Len(req.state.messages) = Len(req.start.messages) + 2
    /\ req.state.messages[Len(req.start.messages) + 1].type = "tool"
    /\ req.state.messages[Len(req.start.messages) + 1].name = "process_refund"
    /\ Last(req.state.messages).type = "ai"

\* The tool calls a run has to see answered, as <<message, call>> positions:
\* those requested since it began, and for a resume those of the reply it was
\* suspended on
RunCalls(r) ==
    LET from == IF r.kind = "approve"
                THEN Len(r.start.messages)
                ELSE Len(r.start.messages) + 1
    IN UNION { { <<k, i>> : i \in 1..Len(r.state.messages[k].tool_calls) } :
                  k \in from..Len(r.state.messages) }

\* A tool message after the reply carries the id of the call
Answered(messages, k, i) ==
    \E j \in (k + 1)..Len(messages) :
        /\ messages[j].type = "tool"
        /\ messages[j].tool_call_id = messages[k].tool_calls[i].id

\* C24: a worker step whose reply carries no tool calls ends the turn; a worker
\* step whose reply carries tool calls none of which requires approval goes to
\* the worker's own tool node (music_expert to music_tools, support_rep to
\* support_tools) and the run goes on; and when a run has reached the end every
\* tool call it had to see answered has a tool message.
C24_WorkerContinuation ==
    [][ /\ (/\ Running
            /\ CurrentNode \in {"music_expert", "support_rep"}
            /\ req'.phase # "error") =>
              LET msg == Last(req'.state.messages) IN
              /\ msg.type = "ai" /\ msg.name = ""
              /\ msg.tool_calls = <<>> =>
                    /\ req'.phase = "done"
                    /\ req'.state.next = ""
                    /\ checkpoint'[req.thread_id].next = ""
              /\ (msg.tool_calls # <<>> /\ ~HasHITLCall(msg)) =>
                    /\ req'.phase = "run"
                    /\ req'.state.next =
                          IF CurrentNode = "music_expert"
                          THEN "music_tools" ELSE "support_tools"
        /\ req'.phase = "done" =>
              \A c \in RunCalls(req') : Answered(req'.state.messages, c[1], c[2])
      ]_all_vars

C24_Witness ==
    /\ req.kind = "chat" /\ req.phase = "done"
    /\ req.state.route = "support"
    /\ RunCalls(req) # {}
    /\ \A c \in RunCalls(req) : Answered(req.state.messages, c[1], c[2])
    /\ Last(req.state.messages).tool_calls = <<>>

\* C25: when a chat turn or a resume returns successfully, the thread's
\* next_step is empty or the refund_tools gate, and a chat answers
\* 'requires approval' exactly when it is the gate, with the pending record
\* stored; and as long as a pending record of a thread exists, its snapshot and
\* its record are changed only by an approve request on the thread or by a
\* reject of it: no other operation touches them.
C25_SuspendedOnlyAtGate ==
    [][ /\ (req.kind \in {"chat", "approve"} /\ req'.kind = "idle"
                /\ resp'.code = 200) =>
              LET next_step == checkpoint'[req.thread_id].next IN
              /\ next_step \in {"", "refund_tools"}
              /\ req.kind = "chat" =>
                    /\ resp'.requires_approval <=> next_step = "refund_tools"
                    /\ resp'.requires_approval =>
                          pending_approvals'[req.thread_id] # NoRecord
        /\ \A t \in Threads :
              (/\ pending_approvals[t] # NoRecord
               /\ \/ checkpoint'[t] # checkpoint[t]
                  \/ pending_approvals'[t] # pending_approvals[t]) =>
                    \/ req.kind = "approve" /\ req.thread_id = t
                    \/ \E c \in Customers : reject_action(t, c)
      ]_all_vars

C25_Witness ==
    /\ AtRest
    /\ pending_approvals["t1"] # NoRecord
    /\ checkpoint["t1"].next = "refund_tools"
    /\ resp.kind = "chat" /\ resp.thread_id = "t2" /\ resp.code = 200
    /\ ~resp.requires_approval
    /\ checkpoint["t2"].next = ""

\* C26 as claimed: when a tool execution has failed on every attempt, a tool
\* failure result is appended to the thread and the run continues at the
\* worker of the tool node; the turn is not aborted.
C26_Original ==
    [][ (/\ Running
         /\ CurrentNode \in {"music_tools", "support_tools", "refund_tools"}
         /\ tool_executions'[req.thread_id] # tool_executions[req.thread_id]
         /\ Last(tool_executions'[req.thread_id]).outcome = "raised") =>
            /\ req'.phase = "run"
            /\ req'.state.next = ToolEdges(CurrentNode)
            /\ Len(req'.state.messages) > Len(req.state.messages)
            /\ Last(req'.state.messages).type = "tool"
            /\ Last(req'.state.messages).status = "error"
            /\ checkpoint'[req.thread_id] = req'.state
      ]_all_vars

\* C27: under any interleaving of requests, a step that changes the messages,
\* route or next_step of a thread, its pending record or its rejection entry is
\* a step of a chat, approve, reject or status request on that same thread:
\* the request in flight on it, or the entry of a new request for it.
C27_ThreadsIsolated ==
    [][ \A u \in Threads :
            (\/ checkpoint'[u] # checkpoint[u]
             \/ pending_approvals'[u] # pending_approvals[u]
             \/ rejected_responses'[u] # rejected_responses[u]) =>
                \/ req.kind \in {"chat", "approve"} /\ req.thread_id = u
                \/ \E c \in Customers :
                      \/ chat(u, c)
                      \/ approve_action(u, c)
                      \/ reject_action(u, c)
                      \/ get_thread_status(u, c)
      ]_all_vars

C27_Witness ==
    /\ req.kind = "chat" /\ req.thread_id = "t1" /\ req.phase = "run"
    /\ \E r \in parked : r.kind = "chat" /\ r.thread_id = "t2" /\ r.phase = "run"
    /\ Len(checkpoint["t1"].messages) > 2
    /\ Len(checkpoint["t2"].messages) > 2
    /\ checkpoint["t1"].route # checkpoint["t2"].route

\* The texts the supervisor gives its routing messages
SupervisorTexts == {"[Routing to music]", "[Routing to support]", FallbackText}

\* The positions of the agent messages with text that are not the supervisor's
AgentTexts(messages) ==
    { i \in 1..Len(messages) :
        /\ messages[i].type = "ai"
        /\ messages[i].name # "supervisor"
        /\ messages[i].text # "" }

\* C28: the reply text of a chat, approve or status response is never the text
\* of a supervisor routing message; for every stored snapshot and for the state
\* a run holds, response extraction yields the text of the latest agent message
\* with text that is not named 'supervisor', and the fixed default text when
\* there is none.
C28_SupervisorTextNeverReturned ==
    /\ resp.response \notin SupervisorTexts
    /\ resp.response \notin {"Approved! " \o s : s \in SupervisorTexts}
    /\ \A result \in {checkpoint[t] : t \in Threads} \cup {req.state} :
          LET agent == AgentTexts(result.messages) IN
          /\ extract_assistant_response(result) \notin SupervisorTexts
          /\ agent = {} => extract_assistant_response(result) = DefaultResponse
          /\ agent # {} =>
                \E i \in agent :
                    /\ \A j \in agent : j <= i
                    /\ extract_assistant_response(result) = result.messages[i].text

C28_Witness ==
    /\ resp.kind = "chat" /\ resp.code = 200
    /\ resp.response = DefaultResponse
    /\ \E i \in 1..Len(checkpoint[resp.thread_id].messages) :
          /\ checkpoint[resp.thread_id].messages[i].name = "supervisor"
          /\ checkpoint[resp.thread_id].messages[i].text \in SupervisorTexts
    /\ AgentTexts(checkpoint[resp.thread_id].messages) = {}

\* C29 as claimed: a CustomerContext constructed with no argument has
\* customer_id 16, the customer of the demo, and one constructed with
\* customer_id = v has customer_id v.
C29_Original ==
    tool_run.tool # "" =>
        tool_run.context.customer_id =
            IF tool_run.context_arg = None THEN DemoCustomerId ELSE tool_run.context_arg

\* C30: every chat response names a thread.  A chat that names a thread is
\* answered for that thread, whether it is blocked by a pending approval or
\* run; a chat that names none is run on an id that no thread had before; and
\* the response after the run, suspended at the gate or a normal reply, carries
\* the id the run was started with.
C30_ChatResponseThreadId ==
    [][ /\ \A s \in Threads \cup {""}, c \in Customers :
              chat(s, c) =>
                  IF resp'.kind = "chat"
                  THEN /\ s # ""
                       /\ resp'.thread_id = s
                       /\ resp'.code = 200 /\ resp'.requires_approval
                       /\ resp'.response = PendingBlockedMessage
                  ELSE /\ req'.kind = "chat"
                       /\ req'.thread_id \in Threads
                       /\ s # "" => req'.thread_id = s
                       /\ s = "" => NewThreadId(req'.thread_id)
        /\ (req.kind = "chat" /\ req'.kind = "idle" /\ resp'.code = 200) =>
              /\ resp'.kind = "chat"
              /\ resp'.thread_id = req.thread_id
              /\ resp'.thread_id \in Threads
              /\ resp'.requires_approval \/ resp'.response # ""
      ]_all_vars

C30_Witness ==
    /\ resp.kind = "chat" /\ resp.code = 200
    /\ resp.thread_id = "t2"
    /\ resp.requires_approval
    /\ resp.response = RequiresApprovalMessage
    /\ Len(submitted["t2"]) = 1
    /\ checkpoint["t1"].next = ""
    /\ Len(submitted["t1"]) = 1

\* C36: when the graph resume inside approve has failed, approve answers 500
\* and the pending approval record of the thread is kept as it was: the thread
\* is still in the list of pending approvals, and a chat on it is answered
\* with the blocked message and starts no run.
C36_FailedApproveKeepsRecord ==
    [][ /\ (req.kind = "approve" /\ req.phase = "error" /\ req'.kind = "idle") =>
              /\ resp'.kind = "approve" /\ resp'.code = 500
              /\ resp'.thread_id = req.thread_id
              /\ pending_approvals[req.thread_id] # NoRecord
              /\ pending_approvals' = pending_approvals
              /\ UNCHANGED <<checkpoint, rejected_responses>>
        /\ \A t \in Threads, c \in Customers :
              (/\ resp.kind = "approve" /\ resp.code = 500 /\ resp.thread_id = t
               /\ \/ chat(t, c)
                  \/ get_pending_approvals) =>
                    /\ req' = req
                    /\ resp'.kind = "chat" =>
                          /\ resp'.response = PendingBlockedMessage
                          /\ resp'.requires_approval
                    /\ resp'.kind = "admin" =>
                          pending_approvals[t] \in resp'.pending
      ]_all_vars

C36_Witness ==
    /\ AtRest
    /\ resp.kind = "chat" /\ resp.response = PendingBlockedMessage
    /\ pending_approvals[resp.thread_id] # NoRecord
    /\ \E e \in Range(tool_executions[resp.thread_id]) :
          e.name = "process_refund" /\ e.outcome = "raised" /\ e.during = "approve"

\* C37 as claimed: a status query that answers 'completed' for a thread gives
\* the reply of the most recent chat, approve or reject that completed on the
\* thread: the same agent text, or the rejection message after a reject.
C37_Original ==
    [][ \A t \in Threads, c \in Customers :
            (/\ get_thread_status(t, c)
             /\ resp'.status = "completed"
             /\ resp.thread_id = t /\ resp.code = 200
             /\ resp.kind \in {"chat", "approve", "reject"}
             /\ ~resp.requires_approval) =>
                IF resp.kind = "approve"
                THEN resp.response = "Approved! " \o resp'.response
                ELSE resp.response = resp'.response
      ]_all_vars

\* C38 as claimed: the reply text of a chat turn that ends normally is the text
\* of an agent message appended during that turn, or the fixed default text;
\* never the text of an agent message of an earlier turn.
C38_Original ==
    [][ (/\ req.kind = "chat" /\ req.phase = "done"
         /\ req'.kind = "idle"
         /\ resp'.code = 200 /\ ~resp'.requires_approval) =>
            \/ resp'.response = DefaultResponse
            \/ \E i \in (Len(req.start.messages) + 1)..Len(req.state.messages) :
                  /\ req.state.messages[i].type = "ai"
                  /\ req.state.messages[i].name # "supervisor"
                  /\ req.state.messages[i].text = resp'.response
      ]_all_vars

\* C33 as claimed: an approved process_refund executes under the customer_id
\* stored in the thread's pending approval record, whatever customer_id the
\* approve request supplied.
C33_Original ==
    [][ (/\ Running
         /\ CurrentNode = "refund_tools"
         /\ tool_executions'[req.thread_id] # tool_executions[req.thread_id]) =>
            \A k \in (Len(tool_executions[req.thread_id]) + 1)..
                         Len(tool_executions'[req.thread_id]) :
                LET e == tool_executions'[req.thread_id][k] IN
                e.name \in HITL_TOOLS =>
                    e.customer_id = pending_approvals[req.thread_id].customer_id
      ]_all_vars

\* C34 as claimed: in a chat turn or a resume started through the API, the
\* customer_id a support tool obtains through _get_customer_id is the
\* customer_id of the request, so the tool never fails with 'customer_id not
\* found in config'.
C34_Original ==
    tool_run.via = "api" =>
        /\ ~(tool_run.out.raised /\ tool_run.out.value = CustomerIdNotFound)
        /\ ~tool_run.out.raised =>
              tool_run.out.query.CustomerId = tool_run.context.customer_id

\* The state ApprovalSpec starts from, as the service reaches it
GateReached == \E customer_id \in Customers : SuspendedAtGate(GateThread, customer_id)

\* C31 as claimed: for one pending approval the deferred process_refund call is
\* executed at most once, also when two approve requests for the thread are
\* handled concurrently.
C31_Original ==
    \A t \in Threads : \A i, j \in 1..Len(tool_executions[t]) :
        (/\ tool_executions[t][i].name = "process_refund"
         /\ tool_executions[t][i].outcome = "returned"
         /\ tool_executions[t][j].outcome = "returned"
         /\ tool_executions[t][i].call_id = tool_executions[t][j].call_id) => i = j

\* C32 as claimed: when an approve and a reject for one pending approval are
\* handled concurrently exactly one takes effect: in no state has the deferred
\* process_refund of a rejected approval executed while the rejection message
\* is stored for the thread.
C32_Original ==
    \A t \in Threads :
        ~(/\ rejected_responses[t] = RejectionMessage
          /\ \E e \in Range(tool_executions[t]) :
                /\ e.name = "process_refund"
                /\ e.outcome = "returned"
                /\ e.call_id \in rejections[t].calls)

\* C35: the gate is compiled in exactly when create_graph is given a
\* checkpointer.  From support_rep a reply with a requires-approval call leads
\* to refund_tools in both graphs; a graph with a checkpointer stops every run
\* that arrives there, before any tool of the batch has run, while a graph
\* without one runs refund_tools and goes on to support_rep in the same
\* invocation, and none of its runs is ever suspended.
C35_GateNeedsCheckpointer ==
    [][ /\ graph.interrupt_before =
              IF graph.checkpointer THEN {"refund_tools"} ELSE {}
        /\ (/\ Running /\ CurrentNode = "support_rep" /\ req'.phase # "error"
            /\ HasHITLCall(Last(req'.state.messages))) =>
              req'.phase = "run" /\ req'.state.next = "refund_tools"
        /\ (/\ Running /\ CurrentNode = "refund_tools"
            /\ graph.checkpointer /\ ~req.resuming) =>
              /\ req'.phase = "interrupted"
              /\ req'.state = req.state
              /\ UNCHANGED <<checkpoint, tool_executions>>
        /\ (Running /\ CurrentNode = "refund_tools" /\ ~graph.checkpointer) =>
              /\ req'.phase \in {"run", "error"}
              /\ req'.phase = "run" =>
                    /\ req'.state.next = "support_rep"
                    /\ Last(req'.state.messages).type = "tool"
                    /\ tool_executions'[req.thread_id] # tool_executions[req.thread_id]
        /\ ~graph.checkpointer => req'.phase # "interrupted"
      ]_all_vars

C35_Witness ==
    /\ ~graph.checkpointer
    /\ req.kind = "invoke" /\ req.phase = "done"
    /\ \E e \in Range(tool_executions[req.thread_id]) :
          /\ e.name = "process_refund" /\ e.outcome = "returned"
          /\ e.during = "invoke" /\ e.node = "refund_tools"
    /\ Last(req.state.messages).type = "ai"

----------------------------------------------------------------------------
(* The model factory.  A model name is the sequence of its characters, so  *)
(* that stripping, lower-casing and prefix matching are computed as the    *)
(* code computes them.  The provider packages and constructors are outside *)
(* the repository: a package may be missing (ImportError) and any          *)
(* constructor may raise (a missing API key, for instance).                *)

DEFAULT_MODEL == <<"g", "p", "t", "-", "4", "o", "-", "m", "i", "n", "i">>

DEFAULT_MUSIC_MODEL ==
    <<"g", "e", "m", "i", "n", "i", "-", "2", ".", "0", "-", "f", "l", "a", "s", "h">>

DEEPSEEK_BASE_URL == "https://api.deepseek.com"

Whitespace == {" ", "\t", "\n"}

LowerCase ==
    [A |-> "a", B |-> "b", C |-> "c", D |-> "d", E |-> "e", F |-> "f", G |-> "g",
     H |-> "h", I |-> "i", J |-> "j", K |-> "k", L |-> "l", M |-> "m", N |-> "n",
     O |-> "o", P |-> "p", Q |-> "q", R |-> "r", S |-> "s", T |-> "t", U |-> "u",
     V |-> "v", W |-> "w", X |-> "x", Y |-> "y", Z |-> "z"]

\* str.lower()
lower(s) ==
    [i \in 1..Len(s) |-> IF s[i] \in DOMAIN LowerCase THEN LowerCase[s[i]] ELSE s[i]]

RECURSIVE lstrip(_)
lstrip(s) == IF Len(s) > 0 /\ Head(s) \in Whitespace THEN lstrip(Tail(s)) ELSE s

RECURSIVE rstrip(_)
rstrip(s) ==
    IF Len(s) > 0 /\ s[Len(s)] \in Whitespace
    THEN rstrip(SubSeq(s, 1, Len(s) - 1))
    ELSE s

\* str.strip()
strip(s) == rstrip(lstrip(s))

\* str.startswith(prefix)
startswith(s, prefix) ==
    Len(s) >= Len(prefix) /\ SubSeq(s, 1, Len(prefix)) = prefix

\* os.getenv(key, default)
os_getenv(environ, key, default) ==
    IF key \in DOMAIN environ THEN environ[key] ELSE default

gemini == <<"g", "e", "m", "i", "n", "i">>

claude == <<"c", "l", "a", "u", "d", "e">>

deepseek == <<"d", "e", "e", "p", "s", "e", "e", "k">>

\* What a constructor call is: the class and the base_url it is given
Construction(cls, base_url) == [cls |-> cls, base_url |-> base_url]

Constructions ==
    {Construction("ChatGoogleGenerativeAI", ""), Construction("ChatAnthropic", ""),
     Construction("ChatOpenAI", DEEPSEEK_BASE_URL), Construction("ChatOpenAI", "")}

Packages == {"langchain_google_genai", "langchain_anthropic"}

ModelRaise(cls) == [raised |-> TRUE, cls |-> cls, model |-> <<>>, base_url |-> ""]

ModelReturn(cls, model, base_url) ==
    [raised |-> FALSE, cls |-> cls, model |-> model, base_url |-> base_url]

\* cls(model=model_name, base_url=...): the instance, or the constructor's
\* exception when this construction is one of those that raise
Construct(cls, model_name, base_url, raising) ==
    IF Construction(cls, base_url) \in raising
    THEN ModelRaise(cls)
    ELSE ModelReturn(cls, model_name, base_url)

\* get_model_for_role(role, env_var, temperature, default): role, temperature
\* and the extra keyword arguments do not change which model is built
get_model_for_role(env_var, default, environ, missing, raising) ==
    LET fallback == IF Len(default) > 0 THEN default ELSE DEFAULT_MODEL
        read == lower(strip(os_getenv(environ, env_var, fallback)))
        model_name == IF Len(read) = 0 THEN fallback ELSE read
    IN  IF startswith(model_name, gemini)
        THEN IF "langchain_google_genai" \in missing
             THEN Construct("ChatOpenAI", DEFAULT_MODEL, "", raising)
             ELSE Construct("ChatGoogleGenerativeAI", model_name, "", raising)
        ELSE IF startswith(model_name, claude)
        THEN IF "langchain_anthropic" \in missing
             THEN Construct("ChatOpenAI", DEFAULT_MODEL, "", raising)
             ELSE Construct("ChatAnthropic", model_name, "", raising)
        ELSE IF startswith(model_name, deepseek)
        THEN IF Construction("ChatOpenAI", DEEPSEEK_BASE_URL) \in raising
             THEN Construct("ChatOpenAI", DEFAULT_MODEL, "", raising)
             ELSE Construct("ChatOpenAI", model_name, DEEPSEEK_BASE_URL, raising)
        ELSE Construct("ChatOpenAI", model_name, "", raising)

EnvVar == "TEST_MODEL"

\* Values of the environment variable: empty, blank, names of each provider
\* in lower, upper and mixed case, padded, and names that only contain or
\* only begin a provider's name
EnvValues ==
    {<<>>, <<" ", " ">>,
     DEFAULT_MODEL,
     <<"G", "P", "T", "-", "4", "O", "-", "M", "I", "N", "I">>,
     DEFAULT_MUSIC_MODEL,
     <<" ", "G", "e", "m", "i", "n", "i", "-", "P", "r", "o", "\n">>,
     <<"c", "l", "a", "u", "d", "e", "-", "3">>,
     <<"C", "L", "A", "U", "D", "E", "-", "3", " ">>,
     <<"d", "e", "e", "p", "s", "e", "e", "k", "-", "c", "h", "a", "t">>,
     <<"\t", "D", "e", "e", "p", "S", "e", "e", "k", "-", "r", "1">>,
     <<"o", "1">>,
     <<"g", "e", "m", "m", "a">>,
     <<"m", "y", "-", "c", "l", "a", "u", "d", "e">>}

Environs ==
    {[k \in {} |-> <<>>]} \cup {[k \in {EnvVar} |-> v] : v \in EnvValues}

\* default=None (and default="", falsy as well) is the empty sequence
Defaults == {<<>>, DEFAULT_MUSIC_MODEL, <<"C", "l", "a", "u", "d", "e", "-", "3">>}

ModelInit ==
    /\ ServiceInit
    /\ db = [i \in Invoices |-> i]
    /\ tool_run = NoRun
    /\ graph = create_graph(TRUE)
    /\ model_run = NoModelRun

CallModelFactory(default, environ, missing, raising) ==
    /\ model_run' = [called |-> TRUE, environ |-> environ, default |-> default,
                     missing |-> missing, raising |-> raising,
                     out |-> get_model_for_role(EnvVar, default, environ,
                                                missing, raising)]
    /\ UNCHANGED <<db, tool_run, graph, vars, parked>>

ModelNext ==
    \E default \in Defaults, environ \in Environs,
       missing \in SUBSET Packages, raising \in SUBSET Constructions :
          CallModelFactory(default, environ, missing, raising)

ModelSpec == ModelInit /\ [][ModelNext]_all_vars

\* The provider a model name selects: the class that is constructed, the
\* base_url it is given and the package it is imported from ("" when the
\* class is imported with the module)
Provider(name) ==
    IF startswith(name, gemini)
    THEN [cls |-> "ChatGoogleGenerativeAI", base_url |-> "",
          package |-> "langchain_google_genai"]
    ELSE IF startswith(name, claude)
    THEN [cls |-> "ChatAnthropic", base_url |-> "", package |-> "langchain_anthropic"]
    ELSE IF startswith(name, deepseek)
    THEN [cls |-> "ChatOpenAI", base_url |-> DEEPSEEK_BASE_URL, package |-> ""]
    ELSE [cls |-> "ChatOpenAI", base_url |-> "", package |-> ""]

\* The model name a call is configured with: the variable's value, or the
\* supplied default (or DEFAULT_MODEL) when the variable is unset or empty,
\* stripped and lower-cased
ConfiguredName(run) ==
    LET fallback == IF Len(run.default) > 0 THEN run.default ELSE DEFAULT_MODEL
        unset == EnvVar \notin DOMAIN run.environ
    IN  IF unset \/ Len(strip(run.environ[EnvVar])) = 0
        THEN lower(strip(fallback))
        ELSE lower(strip(run.environ[EnvVar]))

\* The chosen provider can be set up: its package is there and its
\* constructor returns
CanSetUp(run) ==
    LET p == Provider(ConfiguredName(run))
    IN  /\ p.package \notin run.missing
        /\ Construction(p.cls, p.base_url) \notin run.raising

\* C40: get_model_for_role always returns a model: the one of the provider
\* that the prefix of the stripped, lower-cased configured name selects
\* (gemini, claude, deepseek, otherwise OpenAI), the name being the supplied
\* default (or gpt-4o-mini) when the variable is unset or empty; and an
\* OpenAI model named gpt-4o-mini when that provider cannot be set up.
C40_Original ==
    model_run.called =>
        LET name == ConfiguredName(model_run)
            p == Provider(name)
        IN  /\ ~model_run.out.raised
            /\ CanSetUp(model_run) =>
                  model_run.out = ModelReturn(p.cls, name, p.base_url)
            /\ ~CanSetUp(model_run) =>
                  model_run.out = ModelReturn("ChatOpenAI", DEFAULT_MODEL, "")

====
